---------------------------- MODULE Spec2Model ----------------------------
(***************************************************************************)
(* A model of tokei's line classifier (LanguageType::parse_lines and its   *)
(* SyntaxCounter), of the per-file entry point LanguageType::parse, of the *)
(* parallel ingestion get_all_file_accesses / get_statistics_from and of   *)
(* the identification LanguageType::from_file_access.                      *)
(*                                                                         *)
(* Text is a sequence of one-character strings.  The byte 0 is written     *)
(* NUL and a byte sequence the decoder cannot recover is written BAD.      *)
(***************************************************************************)
EXTENDS Integers, Sequences, FiniteSets, TLC

VARIABLES
    \* ---- the classifier (one run of parse_from_str / parse_from_bytes)
    entry,      \* which entry point was called
    language,   \* the LanguageType the text is classified as
    text,       \* the input text
    lines,      \* the lines the loop of parse_lines has not consumed yet
    syntax,     \* the SyntaxCounter: [quote, stack]
    stats,      \* the Stats being filled
    outcome,    \* the value returned: "none" | "ok" | an error message
    kinds,      \* what each consumed line was counted as, in order
    pc,         \* position of the classifier
    \* ---- the ingestion (one call of get_statistics_from)
    paths,      \* the sequence of file handles handed in
    types,      \* the allow-list: None or a set of LanguageType
    results,    \* per task: "pending" or what LanguageType::parse returned
    languages,  \* the BTreeMap<LanguageType, Language> of the Languages
    prev,       \* the map as it was when the call began
    log,        \* the error! lines written so far
    ipc,        \* position of the ingestion call
    \* ---- the identification (one call of LanguageType::from_file_access)
    handle,     \* the FileAccess handle: [kind, name, content, ...]
    consulted,  \* what of the handle has been asked for so far
    ftype,      \* the extension, or its surrogate from the first line
    ident,      \* the Option<LanguageType> returned
    idpc,       \* position of the identification
    \* ---- the walk of get_all_files
    roots,      \* the paths get_all_files is given
    ignored,    \* the ignored_directories it is given
    tree,       \* the entries the walker yields
    unvisited,  \* the entries the walker has not handed to the callback
    \* ---- the calls made on one Languages
    op,         \* the last call and its arguments
    view,       \* the pairs of the map the last remove_empty returned, in its order
    nops,       \* how many calls were made
    \* ---- the channel of get_all_files
    workers,    \* per walker thread: "new" | "walking" | "exited"
    senders,    \* who holds a Sender: 0 is the closure given to run
    chan,       \* the entries sent and not yet received
    sent,       \* every entry sent so far, in the order of the sends
    collected,  \* the Vec the collector has filled so far
    cpc,        \* position of get_all_files
    \* ---- the two reads of the second branch of LanguageType::parse
    reader,     \* the reader file_access.open() returned: [data, pos]
    limit,      \* what the Take adaptor still lets through
    buf,        \* the Vec<u8> both reads append to
    sres,       \* what the branch returned
    spc         \* position of the branch

parseVars  == <<entry, language, text, lines, syntax, stats, outcome, kinds, pc>>
ingestVars == <<paths, types, results, languages, prev, log, ipc>>
identVars  == <<handle, consulted, ftype, ident, idpc>>
vars       == <<entry, language, text, lines, syntax, stats, outcome, kinds, pc,
                paths, types, results, languages, prev, log, ipc,
                handle, consulted, ftype, ident, idpc,
                roots, ignored, tree, unvisited, op, view, nops,
                workers, senders, chan, sent, collected, cpc,
                reader, limit, buf, sres, spc>>
walkVars   == <<roots, ignored, tree, unvisited>>
apiVars    == <<op, view, nops>>
chanVars   == <<workers, senders, chan, sent, collected, cpc>>
streamVars == <<reader, limit, buf, sres, spc>>

\* what an operation of one part of the program leaves alone
outsideParse  == <<ingestVars, identVars, walkVars, apiVars, chanVars,
                   streamVars>>
outsideIngest == <<parseVars, identVars, walkVars, apiVars, chanVars,
                   streamVars>>
outsideIdent  == <<parseVars, ingestVars, walkVars, apiVars, chanVars,
                   streamVars>>
outsideWalk   == <<parseVars, identVars, apiVars, chanVars, streamVars>>
outsideApi    == <<parseVars, identVars, walkVars, chanVars, streamVars,
                   paths, types, results, ipc>>
outsideChan   == <<parseVars, identVars, apiVars, streamVars,
                   paths, types, results, languages, prev, ipc>>
outsideStream == <<parseVars, ingestVars, identVars, walkVars, apiVars,
                   chanVars>>

-----------------------------------------------------------------------------
(* Bounds of the model *)

\* longest generated text, in tokens
MaxToks == 4
\* most file handles in one ingestion call
MaxFiles == 2

-----------------------------------------------------------------------------
(* Characters and sequences of characters *)

NL  == "\n"
SP  == " "
QT  == "\""
NUL == "NUL"
BAD == "BAD"

\* Option::None of a LanguageType or of a result
None == "None"
\* Option::None of a marker or of a name part (every marker is non-empty)
NoMarker == <<>>

\* A character outside ASCII is written by its code point, "U+00A0"; BAD is a
\* byte that is not valid UTF-8 (U+FFFD under lossy decoding).
FF   == "\f"
VT   == "U+000B"
NEL  == "U+0085"
NBSP == "U+00A0"
EMSP == "U+2003"

\* the characters with the Unicode property White_Space
WhiteSpace ==
    {"\t", NL, VT, FF, "\r", SP, NEL, NBSP, "U+1680",
     "U+2000", "U+2001", "U+2002", EMSP, "U+2004", "U+2005", "U+2006",
     "U+2007", "U+2008", "U+2009", "U+200A",
     "U+2028", "U+2029", "U+202F", "U+205F", "U+3000"}

\* char::is_whitespace
IsWhitespace(c) == c \in WhiteSpace

StartsWith(s, p) == Len(p) <= Len(s) /\ SubSeq(s, 1, Len(p)) = p

Contains(s, p) == \E i \in 1..(Len(s) - Len(p) + 1) : SubSeq(s, i, i + Len(p) - 1) = p

Range(s) == {s[i] : i \in 1..Len(s)}

Min(a, b) == IF a <= b THEN a ELSE b

RECURSIVE Flatten(_)
Flatten(ss) == IF ss = <<>> THEN <<>> ELSE Head(ss) \o Flatten(Tail(ss))

RECURSIVE TrimStart(_)
TrimStart(s) ==
    IF s # <<>> /\ IsWhitespace(Head(s)) THEN TrimStart(Tail(s)) ELSE s

RECURSIVE TrimEnd(_)
TrimEnd(s) ==
    IF s # <<>> /\ IsWhitespace(s[Len(s)])
    THEN TrimEnd(SubSeq(s, 1, Len(s) - 1)) ELSE s

\* Bytes::trim
Trim(s) == TrimEnd(TrimStart(s))

\* Bytes::lines: one line per "\n", and one for a trailing non-terminated
\* line if it is non-empty.
RECURSIVE SplitLines(_, _)
SplitLines(s, cur) ==
    IF s = <<>> THEN (IF cur = <<>> THEN <<>> ELSE <<cur>>)
    ELSE IF Head(s) = NL THEN <<cur>> \o SplitLines(Tail(s), <<>>)
    ELSE SplitLines(Tail(s), Append(cur, Head(s)))

Lines(s) == SplitLines(s, <<>>)

\* split_whitespace
RECURSIVE SplitWords(_, _)
SplitWords(s, cur) ==
    IF s = <<>> THEN (IF cur = <<>> THEN <<>> ELSE <<cur>>)
    ELSE IF IsWhitespace(Head(s))
         THEN (IF cur = <<>> THEN <<>> ELSE <<cur>>) \o SplitWords(Tail(s), <<>>)
         ELSE SplitWords(Tail(s), Append(cur, Head(s)))

Words(s) == SplitWords(s, <<>>)

-----------------------------------------------------------------------------
(* The language table (generated language_type.rs) *)

\* the variants this table has an entry for: the ones the sources and the
\* scenarios name, out of the keys of languages.json
LanguageTypes ==
    {"Bash", "C", "CoffeeScript", "D", "FortranLegacy", "FortranModern",
     "Make", "Python", "Rust", "Text"}

blank_allows_nested == FALSE
blank_line_comments == <<>>
blank_multi_line_comments == <<>>
blank_quotes == <<>>

c_allows_nested == blank_allows_nested
c_line_comments == << <<"/", "/">> >>
c_multi_line_comments == << << <<"/", "*">>, <<"*", "/">> >> >>
c_quotes == << << <<QT>>, <<QT>> >> >>

hash_allows_nested == blank_allows_nested
hash_line_comments == << <<"#">> >>
hash_multi_line_comments == blank_multi_line_comments
hash_quotes == blank_quotes

DoubleAndSingleQuotes == << << <<QT>>, <<QT>> >>, << <<"'">>, <<"'">> >> >>

\* is_blank with no language flagged
is_blank_never(lang) == FALSE

is_blank(lang) == lang \in {"Text"}

is_fortran(lang) == lang = "FortranModern" \/ lang = "FortranLegacy"

line_comments(lang) ==
    CASE lang \in {"C", "D", "Rust"} -> c_line_comments
      [] lang \in {"Bash", "CoffeeScript", "Make", "Python"} -> hash_line_comments
      [] lang = "FortranLegacy" -> << <<"c">>, <<"C">>, <<"!">>, <<"*">> >>
      [] lang = "FortranModern" -> << <<"!">> >>
      [] OTHER -> blank_line_comments

multi_line_comments(lang) ==
    CASE lang \in {"C", "D", "Rust"} -> c_multi_line_comments
      [] lang = "CoffeeScript" ->
            << << <<"#", "#", "#">>, <<"#", "#", "#">> >> >>
      [] lang \in {"Make", "Python"} -> hash_multi_line_comments
      [] OTHER -> blank_multi_line_comments

allows_nested(lang) ==
    CASE lang = "Rust" -> TRUE
      [] lang \in {"C", "D"} -> c_allows_nested
      [] lang \in {"Make", "Python"} -> hash_allows_nested
      [] OTHER -> FALSE

\* nested_comments with no pair for any language
nested_comments_none(lang) == <<>>

nested_comments(lang) ==
    CASE lang = "D" -> << << <<"/", "+">>, <<"+", "/">> >> >>
      [] OTHER -> <<>>

quotes(lang) ==
    CASE lang = "Rust" -> << << <<"r", "#", QT>>, <<QT, "#">> >>,
                             << <<"#", QT>>, <<QT, "#">> >>,
                             << <<QT>>, <<QT>> >> >>
      [] lang \in {"C", "CoffeeScript", "D"} -> c_quotes
      [] lang \in {"Bash", "FortranLegacy", "FortranModern"} -> DoubleAndSingleQuotes
      [] lang \in {"Make", "Python"} -> hash_quotes
      [] OTHER -> blank_quotes

\* the filenames arm of from_file_access with no filenames entry
FilenameLanguageNone(filename) == None

\* the filenames arm of from_file_access: the filenames of Make
FilenameLanguage(filename) ==
    IF filename = <<"m", "a", "k", "e", "f", "i", "l", "e">> THEN "Make"
    ELSE None

\* the env arm of get_filetype_from_shebang: the language's first extension
EnvExtension(word) ==
    IF word \in {<<"p", "y", "t", "h", "o", "n">>,
                 <<"p", "y", "t", "h", "o", "n", "2">>,
                 <<"p", "y", "t", "h", "o", "n", "3">>}
    THEN <<"p", "y">>
    ELSE IF word = <<"b", "a", "s", "h">> THEN <<"b", "a", "s", "h">>
    ELSE NoMarker

\* ExtensionLanguage that knows no extension
ExtensionLanguageNone(ext) == None

\* the extensions arm of from_file_access
ExtensionLanguage(ext) ==
    CASE ext = <<"b", "a", "s", "h">> -> "Bash"
      [] ext = <<"c">> -> "C"
      [] ext \in {<<"f">>, <<"f", "o", "r">>, <<"f", "t", "n">>,
                  <<"f", "7", "7">>, <<"p", "f", "o">>} -> "FortranLegacy"
      [] ext \in {<<"f", "0", "3">>, <<"f", "0", "8">>, <<"f", "9", "0">>,
                  <<"f", "9", "5">>} -> "FortranModern"
      [] ext = <<"c", "o", "f", "f", "e", "e">> -> "CoffeeScript"
      [] ext = <<"d">> -> "D"
      [] ext \in {<<"p", "y">>, <<"p", "y", "w">>} -> "Python"
      [] ext = <<"r", "s">> -> "Rust"
      [] ext \in {<<"t", "x", "t">>, <<"t", "e", "x", "t">>} -> "Text"
      [] OTHER -> None

-----------------------------------------------------------------------------
(* SyntaxCounter *)

\* the openers and closers of a list of (open, close) pairs
Opens(pairs)  == [i \in 1..Len(pairs) |-> pairs[i][1]]
Closes(pairs) == [i \in 1..Len(pairs) |-> pairs[i][2]]

\* SyntaxCounter::new: no quote open, no block comment open
NewSyntax == [quote |-> NoMarker, stack |-> <<>>]

\* the quote openers, block-comment openers and block-comment closers
important_syntax(lang) ==
    Range(Opens(quotes(lang)))
        \cup Range(Opens(multi_line_comments(lang)))
        \cup Range(Opens(nested_comments(lang)))
        \cup Range(Closes(multi_line_comments(lang)))
        \cup Range(Closes(nested_comments(lang)))

\* the line-comment markers and the block-comment openers
start_of_comments(lang) ==
    Range(line_comments(lang))
        \cup Range(Opens(multi_line_comments(lang)))
        \cup Range(Opens(nested_comments(lang)))

\* the index of the first pair of pairs whose opener starts window, or 0
FirstOpen(pairs, window) ==
    LET hits == {i \in 1..Len(pairs) : StartsWith(window, pairs[i][1])}
    IN IF hits = {} THEN 0 ELSE CHOOSE i \in hits : \A j \in hits : i <= j

\* Each parse_* returns [hit, skip, syntax]: Some(skip) or None, and the
\* counter as the call leaves it.
Miss(s) == [hit |-> FALSE, skip |-> 0, syntax |-> s]

parse_end_of_quote(s, window) ==
    IF s.quote # NoMarker /\ StartsWith(window, s.quote)
    THEN [hit |-> TRUE, skip |-> Len(s.quote),
          syntax |-> [s EXCEPT !.quote = NoMarker]]
    ELSE Miss(s)

parse_end_of_multi_line(s, window) ==
    IF s.stack # <<>> /\ StartsWith(window, s.stack[Len(s.stack)])
    THEN [hit |-> TRUE, skip |-> Len(s.stack[Len(s.stack)]),
          syntax |-> [s EXCEPT !.stack = SubSeq(s.stack, 1, Len(s.stack) - 1)]]
    ELSE Miss(s)

\* parse_quote that also opens a quote inside an open block comment
parse_quote_in_comment(lang, s, window) ==
    LET k == FirstOpen(quotes(lang), window)
    IN IF s.quote # NoMarker \/ k = 0 THEN Miss(s)
       ELSE [hit |-> TRUE, skip |-> Len(quotes(lang)[k][1]),
             syntax |-> [s EXCEPT !.quote = quotes(lang)[k][2]]]

parse_quote(lang, s, window) ==
    LET k == FirstOpen(quotes(lang), window)
    IN IF s.quote # NoMarker \/ s.stack # <<>> \/ k = 0 THEN Miss(s)
       ELSE [hit |-> TRUE, skip |-> Len(quotes(lang)[k][1]),
             syntax |-> [s EXCEPT !.quote = quotes(lang)[k][2]]]

\* parse_multi_line_comment that pushes at every opener
parse_multi_line_comment_push(lang, s, window) ==
    LET all == multi_line_comments(lang) \o nested_comments(lang)
        k   == FirstOpen(all, window)
    IN IF s.quote # NoMarker \/ k = 0 THEN Miss(s)
       ELSE [hit |-> TRUE, skip |-> Len(all[k][1]),
             syntax |-> [s EXCEPT !.stack = Append(@, all[k][2])]]

parse_multi_line_comment(lang, s, window) ==
    LET all == multi_line_comments(lang) \o nested_comments(lang)
        k   == FirstOpen(all, window)
        push == allows_nested(lang)
                   \/ all[k] \in Range(nested_comments(lang))
                   \/ all[k][2] \notin Range(s.stack)
    IN IF s.quote # NoMarker \/ k = 0 THEN Miss(s)
       ELSE [hit |-> TRUE, skip |-> Len(all[k][1]),
             syntax |-> IF push THEN [s EXCEPT !.stack = Append(@, all[k][2])]
                        ELSE s]

parse_line_comment(lang, s, window) ==
    /\ s.quote = NoMarker
    /\ s.stack = <<>>
    /\ \E c \in Range(line_comments(lang)) : StartsWith(window, c)

-----------------------------------------------------------------------------
(* Stats and the line classifier *)

\* Stats::new
NewStats(name) ==
    [blanks |-> 0, code |-> 0, comments |-> 0, lines |-> 0, name |-> name]

\* parse_basic: [ok, stats]; a line with no quote, no block comment open and
\* no important syntax is a comment if it starts with a line-comment marker
\* and code otherwise.
\* parse_basic that does not look for important syntax in the line
parse_basic_any_line(lang, s, line, st) ==
    IF s.quote # NoMarker \/ s.stack # <<>>
    THEN [ok |-> FALSE, stats |-> st]
    ELSE IF \E c \in Range(line_comments(lang)) : StartsWith(line, c)
         THEN [ok |-> TRUE, stats |-> [st EXCEPT !.comments = @ + 1]]
         ELSE [ok |-> TRUE, stats |-> [st EXCEPT !.code = @ + 1]]

parse_basic(lang, s, line, st) ==
    IF \/ s.quote # NoMarker
       \/ s.stack # <<>>
       \/ \E m \in important_syntax(lang) : Contains(line, m)
    THEN [ok |-> FALSE, stats |-> st]
    ELSE IF \E c \in Range(line_comments(lang)) : StartsWith(line, c)
         THEN [ok |-> TRUE, stats |-> [st EXCEPT !.comments = @ + 1]]
         ELSE [ok |-> TRUE, stats |-> [st EXCEPT !.code = @ + 1]]

\* The 'window loop of parse_lines from index i on: [syntax, ended], the
\* counter and ended_with_comments when the loop is left.  A skip of n
\* resumes the scan n positions further with ended_with_comments as set.
\* WindowStep with the opening markers tried before the closing ones
WindowStepOpenFirst(lang, s, window) ==
    IF parse_quote(lang, s, window).hit
    THEN [syntax |-> parse_quote(lang, s, window).syntax, ended |-> FALSE,
          skip |-> parse_quote(lang, s, window).skip, stop |-> FALSE]
    ELSE IF parse_multi_line_comment(lang, s, window).hit
    THEN [syntax |-> parse_multi_line_comment(lang, s, window).syntax,
          ended |-> FALSE,
          skip |-> parse_multi_line_comment(lang, s, window).skip,
          stop |-> FALSE]
    ELSE IF parse_end_of_quote(s, window).hit
    THEN [syntax |-> parse_end_of_quote(s, window).syntax, ended |-> TRUE,
          skip |-> parse_end_of_quote(s, window).skip, stop |-> FALSE]
    ELSE IF parse_end_of_multi_line(s, window).hit
    THEN [syntax |-> parse_end_of_multi_line(s, window).syntax,
          ended |-> TRUE,
          skip |-> parse_end_of_multi_line(s, window).skip, stop |-> FALSE]
    ELSE [syntax |-> s, ended |-> FALSE, skip |-> 1,
          stop |-> parse_line_comment(lang, s, window)]

\* One scan position of parse_lines that is not skipped: the window is the
\* rest of the line from that position.  [syntax, ended, skip, stop]: the
\* counter afterwards, ended_with_comments, how far the scan advances, and
\* whether it breaks out of the line.
WindowStep(lang, s, window) ==
    IF parse_end_of_quote(s, window).hit
    THEN [syntax |-> parse_end_of_quote(s, window).syntax, ended |-> TRUE,
          skip |-> parse_end_of_quote(s, window).skip, stop |-> FALSE]
    ELSE IF parse_end_of_multi_line(s, window).hit
    THEN [syntax |-> parse_end_of_multi_line(s, window).syntax,
          ended |-> TRUE,
          skip |-> parse_end_of_multi_line(s, window).skip, stop |-> FALSE]
    ELSE IF parse_quote(lang, s, window).hit
    THEN [syntax |-> parse_quote(lang, s, window).syntax, ended |-> FALSE,
          skip |-> parse_quote(lang, s, window).skip, stop |-> FALSE]
    ELSE IF parse_multi_line_comment(lang, s, window).hit
    THEN [syntax |-> parse_multi_line_comment(lang, s, window).syntax,
          ended |-> FALSE,
          skip |-> parse_multi_line_comment(lang, s, window).skip,
          stop |-> FALSE]
    ELSE [syntax |-> s, ended |-> FALSE, skip |-> 1,
          stop |-> parse_line_comment(lang, s, window)]

\* The window loop of parse_lines from position i: [syntax, ended].
RECURSIVE ScanFrom(_, _, _, _)
ScanFrom(lang, step, line, i) ==
    IF step.stop \/ i > Len(line)
    THEN [syntax |-> step.syntax, ended |-> step.ended]
    ELSE ScanFrom(lang,
                  WindowStep(lang, step.syntax, SubSeq(line, i, Len(line))),
                  line,
                  i + WindowStep(lang, step.syntax,
                                 SubSeq(line, i, Len(line))).skip)

ScanWindows(lang, s, ended, line, i) ==
    ScanFrom(lang, [syntax |-> s, ended |-> ended, skip |-> 0, stop |-> FALSE],
             line, i)

\* The scan positions of the window loop from position i that are not
\* skipped, each with the counter the scan reaches it with.
RECURSIVE Visits(_, _, _, _)
Visits(lang, s, line, i) ==
    IF i > Len(line) THEN {}
    ELSE {[syntax |-> s, window |-> SubSeq(line, i, Len(line))]}
         \cup IF WindowStep(lang, s, SubSeq(line, i, Len(line))).stop THEN {}
              ELSE Visits(lang,
                          WindowStep(lang, s,
                                     SubSeq(line, i, Len(line))).syntax,
                          line,
                          i + WindowStep(lang, s,
                                         SubSeq(line, i, Len(line))).skip)

\* IsCommentLine without the had_multi_line condition
IsCommentLineNoHad(lang, s, ended, had_multi_line, line) ==
    \/ s.stack # <<>> \/ ended
    \/ /\ \E c \in start_of_comments(lang) : StartsWith(line, c)
       /\ s.quote = NoMarker

\* The rule after the scan: is the line a comment?
IsCommentLine(lang, s, ended, had_multi_line, line) ==
    \/ (s.stack # <<>> \/ ended) /\ had_multi_line
    \/ /\ \E c \in start_of_comments(lang) : StartsWith(line, c)
       /\ s.quote = NoMarker

\* is the line blank (every character is whitespace)?
IsBlankLine(line) == \A i \in 1..Len(line) : IsWhitespace(line[i])

\* the line as the loop body looks at it
Trimmed(lang, line) == IF is_fortran(lang) THEN line ELSE Trim(line)

\* ParseLine that counts a blank line inside an open block comment or an
\* open string as part of it and closes the construct
ParseLineBlankInside(lang, s, st, rawline) ==
    IF IsBlankLine(rawline)
    THEN IF s.stack # <<>>
         THEN [syntax |-> NewSyntax, stats |-> [st EXCEPT !.comments = @ + 1]]
         ELSE IF s.quote # NoMarker
         THEN [syntax |-> NewSyntax, stats |-> [st EXCEPT !.code = @ + 1]]
         ELSE [syntax |-> s, stats |-> [st EXCEPT !.blanks = @ + 1]]
    ELSE
      LET line == Trimmed(lang, rawline)
          basic == parse_basic(lang, s, line, st)
          scan == ScanWindows(lang, s, FALSE, line, 1)
      IN IF basic.ok THEN [syntax |-> s, stats |-> basic.stats]
         ELSE IF IsCommentLine(lang, scan.syntax, scan.ended,
                               s.stack # <<>>, line)
              THEN [syntax |-> scan.syntax,
                    stats |-> [st EXCEPT !.comments = @ + 1]]
              ELSE [syntax |-> scan.syntax,
                    stats |-> [st EXCEPT !.code = @ + 1]]

\* One pass of the loop body of parse_lines over a line: [syntax, stats].
ParseLine(lang, s, st, rawline) ==
    IF IsBlankLine(rawline)
    THEN [syntax |-> s, stats |-> [st EXCEPT !.blanks = @ + 1]]
    ELSE
      LET line == Trimmed(lang, rawline)
          had_multi_line == s.stack # <<>>
          basic == parse_basic(lang, s, line, st)
          scan == ScanWindows(lang, s, FALSE, line, 1)
      IN IF basic.ok THEN [syntax |-> s, stats |-> basic.stats]
         ELSE IF IsCommentLine(lang, scan.syntax, scan.ended, had_multi_line, line)
              THEN [syntax |-> scan.syntax,
                    stats |-> [st EXCEPT !.comments = @ + 1]]
              ELSE [syntax |-> scan.syntax,
                    stats |-> [st EXCEPT !.code = @ + 1]]

\* FinishStats with the blank lines left out of the sum
FinishStatsNoBlanks(st) == [st EXCEPT !.lines = st.code + st.comments]

\* the end of parse_lines: lines is the sum of the three counters
FinishStats(st) ==
    [st EXCEPT !.lines = st.blanks + st.code + st.comments]

RECURSIVE ParseLoop(_, _, _, _)
ParseLoop(lang, s, st, ls) ==
    IF ls = <<>> THEN st
    ELSE LET r == ParseLine(lang, s, st, Head(ls))
         IN ParseLoop(lang, r.syntax, r.stats, Tail(ls))

parse_lines(lang, ls, st) == FinishStats(ParseLoop(lang, NewSyntax, st, ls))

\* CountLines that counts only the non-blank lines as code, the others as
\* blanks
CountLinesSkipBlank(st, ls) ==
    [st EXCEPT !.lines = Len(ls),
               !.code = Cardinality({i \in 1..Len(ls) : ~IsBlankLine(ls[i])}),
               !.blanks = Cardinality({i \in 1..Len(ls) : IsBlankLine(ls[i])})]

\* the is_blank branch of parse_from_bytes_checked
CountLines(st, ls) == [st EXCEPT !.lines = Len(ls), !.code = Len(ls)]

parse_from_bytes_checked(lang, name, txt) ==
    IF is_blank(lang) THEN CountLines(NewStats(name), Lines(txt))
    ELSE parse_lines(lang, Lines(txt), NewStats(name))

parse_from_str(lang, name, txt) == parse_from_bytes_checked(lang, name, txt)

\* bytes::is_binary: a NUL byte in the prefix that is inspected
BinaryPrefix == 8000
is_binary(txt) == \E i \in 1..Min(Len(txt), BinaryPrefix) : txt[i] = NUL

\* bytes::decode: [ok, text]; fails only on input it cannot recover
decode(txt) == IF BAD \in Range(txt) THEN [ok |-> FALSE, text |-> <<>>]
               ELSE [ok |-> TRUE, text |-> txt]

\* Result<Stats, io::Error>: [ok, stats, err]
Ok(v)   == [ok |-> TRUE, value |-> v, err |-> None]
Err(e)  == [ok |-> FALSE, value |-> None, err |-> e]

\* parse_from_bytes without the binary check
parse_from_bytes_unchecked(lang, name, txt) ==
    IF ~decode(txt).ok THEN Err("decode error")
    ELSE Ok(parse_from_bytes_checked(lang, name, decode(txt).text))

parse_from_bytes(lang, name, txt) ==
    IF is_binary(txt) THEN Err("binary file")
    ELSE IF ~decode(txt).ok THEN Err("decode error")
    ELSE Ok(parse_from_bytes_checked(lang, name, decode(txt).text))

-----------------------------------------------------------------------------
(* The files of the scenarios *)

\* a.c: a block comment across three lines
BlockCommentText ==
    <<"i", "n", "t", SP, "x", SP, "=", SP, "1", ";", SP, "/", "*", SP, "s",
      "t", "a", "r", "t", NL, "m", "i", "d", "d", "l", "e", NL, "e", "n",
      "d", SP, "*", "/", SP, "i", "n", "t", SP, "y", SP, "=", SP, "2", ";",
      NL>>

\* hello.rs
HelloText ==
    <<"f", "n", SP, "m", "a", "i", "n", "(", ")", SP, "{", SP, "p", "r",
      "i", "n", "t", "l", "n", "!", "(", QT, "H", "e", "l", "l", "o", ",",
      SP, "/", "/", SP, "w", "o", "r", "l", "d", QT, ")", ";", SP, "/",
      "/", SP, "g", "r", "e", "e", "t", NL, "}", NL>>

\* a.d: nested comments
NestedText ==
    <<"/", "+", SP, "o", "u", "t", "e", "r", SP, "/", "+", SP, "i", "n",
      "n", "e", "r", SP, "+", "/", SP, "s", "t", "i", "l", "l", SP, "o",
      "u", "t", "e", "r", SP, "+", "/", NL, "c", "o", "d", "e", ";", NL>>

\* five non-empty lines and two empty lines
PlainText ==
    <<"o", "n", "e", NL, "t", "w", "o", NL, NL, "t", "h", "r", "e", "e",
      NL, "f", "o", "u", "r", NL, NL, "f", "i", "v", "e", NL>>

\* a NUL among the first bytes
BinaryText ==
    <<"x", ";", NUL, NL, "y", ";", NL>>

\* bytes the decoder cannot recover
UndecodableText ==
    <<"x", ";", BAD, NL>>

\* content the content-sniffing hook recognises
SniffedText ==
    <<"x", ";", SP, "/", "*", SP, "c", SP, "*", "/", NL, NL, "/", "/", SP,
      "y", NL>>

\* b.c
OtherCText ==
    <<"/", "/", SP, "a", NL, "x", ";", NL, NL, "y", ";", NL>>

\* old.rs, classified by an earlier call
OldText ==
    <<"/", "/", SP, "o", "l", "d", NL, "f", "n", SP, "f", "(", ")", SP,
      "{", "}", NL>>

\* README: no language
UnknownText ==
    <<"r", "e", "a", "d", SP, "m", "e", NL>>

-----------------------------------------------------------------------------
(* The classifier as a state machine: one call of parse_from_str or of      *)
(* parse_from_bytes, the loop of parse_lines taken one line at a time.      *)

\* the pieces generated texts are made of, per language
Tokens(lang) ==
    CASE lang = "C" ->
            {<<"/", "*">>, <<"*", "/">>, <<"/", "/">>, <<QT>>, <<"x">>, <<NL>>}
      [] lang = "Rust" ->
            {<<"/", "*">>, <<"*", "/">>, <<QT>>, <<"x">>, <<SP>>, <<NL>>}
      [] lang = "CoffeeScript" ->
            {<<"#", "#", "#">>, <<QT>>, <<"x">>, <<NL>>}
      [] lang = "D" ->
            {<<"/", "+">>, <<"+", "/">>, <<"/", "/">>, <<"x">>, <<SP>>, <<NL>>}
      [] lang = "FortranLegacy" -> {<<"c">>, <<"x">>, <<SP>>, <<NL>>}
      [] OTHER -> {<<"/", "/">>, <<"x">>, <<SP>>, <<NL>>}

\* the languages texts are generated for
ParseLanguages == {"C", "CoffeeScript", "D", "FortranLegacy", "Rust", "Text"}

GeneratedTexts(lang) ==
    {Flatten(ts) : ts \in UNION {[1..n -> Tokens(lang)] : n \in 0..MaxToks}}

\* a block comment closed on a line that goes on with a string literal
QuoteAfterCloseText ==
    <<"/", "*", NL, "*", "/", SP, QT, "x", QT, NL>>

\* a quote inside a block comment, then a block-comment opener inside a string
InertMarkersText ==
    <<"/", "*", QT, "*", "/", QT, "/", "*", QT, NL>>

\* a regular opener met twice, then a nested_comments opener met twice
ReopenText ==
    <<"/", "*", "/", "*", "/", "+", "/", "+", NL>>

\* lines of a form feed, of a no-break space and of an em space, inside a
\* block comment and after it
WideBlankText ==
    <<"/", "*", NL, FF, NL, NBSP, SP, NL, "*", "/", NL, SP, EMSP, VT, NL,
      "x", NL>>

ScenarioTexts ==
    {BlockCommentText, HelloText, NestedText, PlainText, BinaryText,
     UndecodableText, QuoteAfterCloseText, InertMarkersText, ReopenText,
     WideBlankText}

InputName == <<"i", "n", "p", "u", "t">>

\* the ingestion is not running
IngestIdle ==
    /\ paths = <<>>
    /\ types = None
    /\ results = <<>>
    /\ languages = <<>>
    /\ prev = <<>>
    /\ log = {}
    /\ ipc = "idle"

\* no walk is running
WalkIdle ==
    /\ roots = <<>>
    /\ ignored = <<>>
    /\ tree = {}
    /\ unvisited = {}

\* get_all_files is not running
ChanIdle ==
    /\ workers = <<>>
    /\ senders = {}
    /\ chan = <<>>
    /\ sent = <<>>
    /\ collected = <<>>
    /\ cpc = "idle"

\* no file is being read for its content
StreamIdle ==
    /\ reader = [data |-> <<>>, pos |-> 0]
    /\ limit = 0
    /\ buf = <<>>
    /\ sres = [tag |-> "idle"]
    /\ spc = "idle"

\* no call was made on the Languages
ApiIdle ==
    /\ op = [call |-> "none"]
    /\ view = <<>>
    /\ nops = 0

\* no identification is running
IdentIdle ==
    /\ handle = [kind |-> "none", name |-> <<>>, content |-> <<>>,
                 open_fails |-> FALSE, read_fails |-> FALSE, good |-> 0]
    /\ consulted = {}
    /\ ftype = [some |-> FALSE, v |-> <<>>]
    /\ ident = None
    /\ idpc = "idle"

InitParse ==
    /\ entry \in {"parse_from_str", "parse_from_bytes"}
    /\ language \in ParseLanguages
    /\ text \in GeneratedTexts(language) \cup ScenarioTexts
    \* a &str is valid UTF-8
    /\ entry = "parse_from_str" => decode(text).ok
    /\ lines = <<>>
    /\ syntax = NewSyntax
    /\ stats = NewStats(InputName)
    /\ outcome = "none"
    /\ kinds = <<>>
    /\ pc = "entry"
    /\ IngestIdle
    /\ ChanIdle
    /\ StreamIdle
    /\ IdentIdle
    /\ WalkIdle
    /\ ApiIdle

\* the text parse_from_bytes_checked is given
Checked == IF entry = "parse_from_str" THEN text ELSE decode(text).text

\* parse_from_str hands the text on as it is
EnterStr ==
    /\ pc = "entry"
    /\ entry = "parse_from_str"
    /\ pc' = "checked"
    /\ UNCHANGED <<entry, language, text, lines, syntax, stats, outcome, kinds>>
    /\ UNCHANGED outsideParse

\* parse_from_bytes on binary input: Err("binary file")
RejectBinary ==
    /\ pc = "entry"
    /\ entry = "parse_from_bytes"
    /\ is_binary(text)
    /\ outcome' = parse_from_bytes(language, InputName, text).err
    /\ pc' = "done"
    /\ UNCHANGED <<entry, language, text, lines, syntax, stats, kinds>>
    /\ UNCHANGED outsideParse

\* parse_from_bytes on input that does not decode: the decoder's error
RejectUndecodable ==
    /\ pc = "entry"
    /\ entry = "parse_from_bytes"
    /\ ~is_binary(text)
    /\ ~decode(text).ok
    /\ outcome' = parse_from_bytes(language, InputName, text).err
    /\ pc' = "done"
    /\ UNCHANGED <<entry, language, text, lines, syntax, stats, kinds>>
    /\ UNCHANGED outsideParse

\* parse_from_bytes on text: decoded and handed on
EnterBytes ==
    /\ pc = "entry"
    /\ entry = "parse_from_bytes"
    /\ ~is_binary(text)
    /\ decode(text).ok
    /\ pc' = "checked"
    /\ UNCHANGED <<entry, language, text, lines, syntax, stats, outcome, kinds>>
    /\ UNCHANGED outsideParse

\* parse_from_bytes_checked of a blank language: the lines are counted
CountBlankLanguage ==
    /\ pc = "checked"
    /\ is_blank(language)
    /\ stats' = CountLines(NewStats(InputName), Lines(Checked))
    /\ outcome' = "ok"
    /\ pc' = "done"
    /\ UNCHANGED <<entry, language, text, lines, syntax, kinds>>
    /\ UNCHANGED outsideParse

\* parse_from_bytes_checked of any other language: parse_lines begins
BeginLines ==
    /\ pc = "checked"
    /\ ~is_blank(language)
    /\ lines' = Lines(Checked)
    /\ syntax' = NewSyntax
    /\ stats' = NewStats(InputName)
    /\ pc' = "loop"
    /\ UNCHANGED <<entry, language, text, outcome, kinds>>
    /\ UNCHANGED outsideParse

\* what ParseLine counted a line as
KindOf(before, after) ==
    IF after.blanks > before.blanks THEN "blank"
    ELSE IF after.comments > before.comments THEN "comment"
    ELSE IF after.code > before.code THEN "code"
    ELSE "none"

\* the loop body on the next line
StepLine ==
    LET r == ParseLine(language, syntax, stats, Head(lines))
    IN /\ syntax' = r.syntax
       /\ stats' = r.stats
       /\ kinds' = Append(kinds, KindOf(stats, r.stats))
       /\ lines' = Tail(lines)
       /\ UNCHANGED <<entry, language, text, outcome, pc>>
       /\ UNCHANGED outsideParse

\* a line of whitespace only
BlankLine ==
    /\ pc = "loop"
    /\ lines # <<>>
    /\ IsBlankLine(Head(lines))
    /\ StepLine

\* a line parse_basic settles
BasicLine ==
    /\ pc = "loop"
    /\ lines # <<>>
    /\ ~IsBlankLine(Head(lines))
    /\ parse_basic(language, syntax, Trimmed(language, Head(lines)), stats).ok
    /\ StepLine

\* a line that is scanned window by window
ScanLine ==
    /\ pc = "loop"
    /\ lines # <<>>
    /\ ~IsBlankLine(Head(lines))
    /\ ~parse_basic(language, syntax, Trimmed(language, Head(lines)), stats).ok
    /\ StepLine

\* the end of parse_lines
FinishLines ==
    /\ pc = "loop"
    /\ lines = <<>>
    /\ stats' = FinishStats(stats)
    /\ outcome' = "ok"
    /\ pc' = "done"
    /\ UNCHANGED <<entry, language, text, lines, syntax, kinds>>
    /\ UNCHANGED outsideParse

NextParse ==
    \/ EnterStr
    \/ RejectBinary
    \/ RejectUndecodable
    \/ EnterBytes
    \/ CountBlankLanguage
    \/ BeginLines
    \/ BlankLine
    \/ BasicLine
    \/ ScanLine
    \/ FinishLines

SpecParse == InitParse /\ [][NextParse]_vars

\* the state machine returns what the functions compute
ParseAgrees ==
    (pc = "done" /\ outcome = "ok") =>
        stats = parse_from_bytes_checked(language, InputName, Checked)

-----------------------------------------------------------------------------
(* FileAccess handles *)

\* A handle: [kind, name, content, open_fails, read_fails, good].  kind
\* "path" is the implementation for &Path; kind "with_name" is a handle that
\* uses the trait's defaults for file_name and extension.  When read_fails,
\* the reads of a reader over the file deliver the first good bytes of the
\* content and then return an error.

UpperCase == <<"A", "B", "C", "D", "E", "F", "G", "H", "I", "J", "K", "L", "M",
               "N", "O", "P", "Q", "R", "S", "T", "U", "V", "W", "X", "Y", "Z">>
LowerCase == <<"a", "b", "c", "d", "e", "f", "g", "h", "i", "j", "k", "l", "m",
               "n", "o", "p", "q", "r", "s", "t", "u", "v", "w", "x", "y", "z">>

\* KELVIN SIGN, I WITH DOT ABOVE, and CAPITAL SIGMA with its two lower-case
\* forms
KELVIN        == "U+212A"
DottedI       == "U+0130"
SIGMA         == "U+03A3"
SmallSigma    == "U+03C3"
FinalSigma    == "U+03C2"
CombiningDot  == "U+0307"

\* The names of the model are written in NameAlphabet: the printable
\* characters of ASCII, those of Latin-1 Supplement, the Greek capital and
\* small letters, and seven others (I WITH DOT ABOVE, COMBINING ACUTE ACCENT,
\* COMBINING DOT ABOVE, COMBINING YPOGEGRAMMENI, ZERO WIDTH SPACE, RIGHT
\* SINGLE QUOTATION MARK, KELVIN SIGN).  GRAVE ACCENT is written "U+0060".
\* The lower-casing of the standard library is stated on these characters
\* and on no other: ToLowerChar, Cased and Case_Ignorable are functions on
\* NameAlphabet, so to_lowercase has no value on a name with a character
\* outside it.  The tables below are the library's, restricted to it.
Ascii ==
    {" ", "!", "\"", "#", "$", "%", "&", "'", "(", ")", "*", "+", ",", "-",
     ".", "/", "0", "1", "2", "3", "4", "5", "6", "7", "8", "9", ":", ";",
     "<", "=", ">", "?", "@", "A", "B", "C", "D", "E", "F", "G", "H", "I",
     "J", "K", "L", "M", "N", "O", "P", "Q", "R", "S", "T", "U", "V", "W",
     "X", "Y", "Z", "[", "\\", "]", "^", "_", "U+0060", "a", "b", "c", "d",
     "e", "f", "g", "h", "i", "j", "k", "l", "m", "n", "o", "p", "q", "r",
     "s", "t", "u", "v", "w", "x", "y", "z", "{", "|", "}", "~"}

Latin1 ==
    {"U+00A0", "U+00A1", "U+00A2", "U+00A3", "U+00A4", "U+00A5", "U+00A6",
     "U+00A7", "U+00A8", "U+00A9", "U+00AA", "U+00AB", "U+00AC", "U+00AD",
     "U+00AE", "U+00AF", "U+00B0", "U+00B1", "U+00B2", "U+00B3", "U+00B4",
     "U+00B5", "U+00B6", "U+00B7", "U+00B8", "U+00B9", "U+00BA", "U+00BB",
     "U+00BC", "U+00BD", "U+00BE", "U+00BF", "U+00C0", "U+00C1", "U+00C2",
     "U+00C3", "U+00C4", "U+00C5", "U+00C6", "U+00C7", "U+00C8", "U+00C9",
     "U+00CA", "U+00CB", "U+00CC", "U+00CD", "U+00CE", "U+00CF", "U+00D0",
     "U+00D1", "U+00D2", "U+00D3", "U+00D4", "U+00D5", "U+00D6", "U+00D7",
     "U+00D8", "U+00D9", "U+00DA", "U+00DB", "U+00DC", "U+00DD", "U+00DE",
     "U+00DF", "U+00E0", "U+00E1", "U+00E2", "U+00E3", "U+00E4", "U+00E5",
     "U+00E6", "U+00E7", "U+00E8", "U+00E9", "U+00EA", "U+00EB", "U+00EC",
     "U+00ED", "U+00EE", "U+00EF", "U+00F0", "U+00F1", "U+00F2", "U+00F3",
     "U+00F4", "U+00F5", "U+00F6", "U+00F7", "U+00F8", "U+00F9", "U+00FA",
     "U+00FB", "U+00FC", "U+00FD", "U+00FE", "U+00FF"}

Greek ==
    {"U+0391", "U+0392", "U+0393", "U+0394", "U+0395", "U+0396", "U+0397",
     "U+0398", "U+0399", "U+039A", "U+039B", "U+039C", "U+039D", "U+039E",
     "U+039F", "U+03A0", "U+03A1", "U+03A3", "U+03A4", "U+03A5", "U+03A6",
     "U+03A7", "U+03A8", "U+03A9", "U+03B1", "U+03B2", "U+03B3", "U+03B4",
     "U+03B5", "U+03B6", "U+03B7", "U+03B8", "U+03B9", "U+03BA", "U+03BB",
     "U+03BC", "U+03BD", "U+03BE", "U+03BF", "U+03C0", "U+03C1", "U+03C2",
     "U+03C3", "U+03C4", "U+03C5", "U+03C6", "U+03C7", "U+03C8", "U+03C9"}

NameAlphabet ==
    Ascii \cup Latin1 \cup Greek \cup
    {"U+0130", "U+0301", "U+0307", "U+0345", "U+200B", "U+2019", "U+212A"}

\* LOWERCASE_TABLE: the characters outside ASCII that have a lower-case
\* mapping of one character, each with that mapping
LOWERCASE_TABLE ==
    {<<"U+00C0", "U+00E0">>, <<"U+00C1", "U+00E1">>, <<"U+00C2", "U+00E2">>,
     <<"U+00C3", "U+00E3">>, <<"U+00C4", "U+00E4">>, <<"U+00C5", "U+00E5">>,
     <<"U+00C6", "U+00E6">>, <<"U+00C7", "U+00E7">>, <<"U+00C8", "U+00E8">>,
     <<"U+00C9", "U+00E9">>, <<"U+00CA", "U+00EA">>, <<"U+00CB", "U+00EB">>,
     <<"U+00CC", "U+00EC">>, <<"U+00CD", "U+00ED">>, <<"U+00CE", "U+00EE">>,
     <<"U+00CF", "U+00EF">>, <<"U+00D0", "U+00F0">>, <<"U+00D1", "U+00F1">>,
     <<"U+00D2", "U+00F2">>, <<"U+00D3", "U+00F3">>, <<"U+00D4", "U+00F4">>,
     <<"U+00D5", "U+00F5">>, <<"U+00D6", "U+00F6">>, <<"U+00D8", "U+00F8">>,
     <<"U+00D9", "U+00F9">>, <<"U+00DA", "U+00FA">>, <<"U+00DB", "U+00FB">>,
     <<"U+00DC", "U+00FC">>, <<"U+00DD", "U+00FD">>, <<"U+00DE", "U+00FE">>,
     <<"U+0391", "U+03B1">>, <<"U+0392", "U+03B2">>, <<"U+0393", "U+03B3">>,
     <<"U+0394", "U+03B4">>, <<"U+0395", "U+03B5">>, <<"U+0396", "U+03B6">>,
     <<"U+0397", "U+03B7">>, <<"U+0398", "U+03B8">>, <<"U+0399", "U+03B9">>,
     <<"U+039A", "U+03BA">>, <<"U+039B", "U+03BB">>, <<"U+039C", "U+03BC">>,
     <<"U+039D", "U+03BD">>, <<"U+039E", "U+03BE">>, <<"U+039F", "U+03BF">>,
     <<"U+03A0", "U+03C0">>, <<"U+03A1", "U+03C1">>, <<"U+03A3", "U+03C3">>,
     <<"U+03A4", "U+03C4">>, <<"U+03A5", "U+03C5">>, <<"U+03A6", "U+03C6">>,
     <<"U+03A7", "U+03C7">>, <<"U+03A8", "U+03C8">>, <<"U+03A9", "U+03C9">>,
     <<"U+212A", "k">>}

\* LOWERCASE_TABLE_MULTI: I WITH DOT ABOVE is the one character whose
\* lower-case mapping has two characters
LOWERCASE_TABLE_MULTI == <<"i", CombiningDot>>

\* the characters with the property Cased
CasedTable ==
    {"A", "B", "C", "D", "E", "F", "G", "H", "I", "J", "K", "L", "M", "N",
     "O", "P", "Q", "R", "S", "T", "U", "V", "W", "X", "Y", "Z", "a", "b",
     "c", "d", "e", "f", "g", "h", "i", "j", "k", "l", "m", "n", "o", "p",
     "q", "r", "s", "t", "u", "v", "w", "x", "y", "z", "U+00AA", "U+00B5",
     "U+00BA", "U+00C0", "U+00C1", "U+00C2", "U+00C3", "U+00C4", "U+00C5",
     "U+00C6", "U+00C7", "U+00C8", "U+00C9", "U+00CA", "U+00CB", "U+00CC",
     "U+00CD", "U+00CE", "U+00CF", "U+00D0", "U+00D1", "U+00D2", "U+00D3",
     "U+00D4", "U+00D5", "U+00D6", "U+00D8", "U+00D9", "U+00DA", "U+00DB",
     "U+00DC", "U+00DD", "U+00DE", "U+00DF", "U+00E0", "U+00E1", "U+00E2",
     "U+00E3", "U+00E4", "U+00E5", "U+00E6", "U+00E7", "U+00E8", "U+00E9",
     "U+00EA", "U+00EB", "U+00EC", "U+00ED", "U+00EE", "U+00EF", "U+00F0",
     "U+00F1", "U+00F2", "U+00F3", "U+00F4", "U+00F5", "U+00F6", "U+00F8",
     "U+00F9", "U+00FA", "U+00FB", "U+00FC", "U+00FD", "U+00FE", "U+00FF",
     "U+0391", "U+0392", "U+0393", "U+0394", "U+0395", "U+0396", "U+0397",
     "U+0398", "U+0399", "U+039A", "U+039B", "U+039C", "U+039D", "U+039E",
     "U+039F", "U+03A0", "U+03A1", "U+03A3", "U+03A4", "U+03A5", "U+03A6",
     "U+03A7", "U+03A8", "U+03A9", "U+03B1", "U+03B2", "U+03B3", "U+03B4",
     "U+03B5", "U+03B6", "U+03B7", "U+03B8", "U+03B9", "U+03BA", "U+03BB",
     "U+03BC", "U+03BD", "U+03BE", "U+03BF", "U+03C0", "U+03C1", "U+03C2",
     "U+03C3", "U+03C4", "U+03C5", "U+03C6", "U+03C7", "U+03C8", "U+03C9",
     "U+0130", "U+0345", "U+212A"}

\* the characters with the property Case_Ignorable
CaseIgnorableTable ==
    {"'", ".", ":", "^", "U+0060", "U+00A8", "U+00AD", "U+00AF", "U+00B4",
     "U+00B7", "U+00B8", "U+0301", "U+0307", "U+0345", "U+200B", "U+2019"}

\* the characters outside ASCII that to_lower changes
LowerMapped == {p[1] : p \in LOWERCASE_TABLE} \cup {DottedI}

\* the lower-case mapping of a character of LowerMapped
LowerMapping(c) ==
    IF c = DottedI THEN LOWERCASE_TABLE_MULTI
    ELSE <<(CHOOSE p \in LOWERCASE_TABLE : p[1] = c)[2]>>

Cased == [c \in NameAlphabet |-> c \in CasedTable]

Case_Ignorable == [c \in NameAlphabet |-> c \in CaseIgnorableTable]

\* case_ignorable_then_cased: the first character that is not
\* Case_Ignorable exists and is Cased
RECURSIVE case_ignorable_then_cased(_)
case_ignorable_then_cased(cs) ==
    IF cs = <<>> THEN FALSE
    ELSE IF Case_Ignorable[Head(cs)] THEN case_ignorable_then_cased(Tail(cs))
    ELSE Cased[Head(cs)]

Reverse(cs) == [i \in 1..Len(cs) |-> cs[Len(cs) + 1 - i]]

\* map_uppercase_sigma: final sigma at the end of a word
map_uppercase_sigma(n, i) ==
    IF /\ case_ignorable_then_cased(Reverse(SubSeq(n, 1, i - 1)))
       /\ ~case_ignorable_then_cased(SubSeq(n, i + 1, Len(n)))
    THEN FinalSigma ELSE SmallSigma

\* char::to_lowercase
ToLowerChar ==
    [c \in NameAlphabet |->
        IF \E i \in 1..26 : UpperCase[i] = c
        THEN <<LowerCase[CHOOSE i \in 1..26 : UpperCase[i] = c]>>
        ELSE IF c \in LowerMapped THEN LowerMapping(c)
        ELSE <<c>>]

\* str::to_lowercase
to_lowercase(n) ==
    Flatten([i \in 1..Len(n) |->
                IF n[i] = SIGMA THEN <<map_uppercase_sigma(n, i)>>
                ELSE ToLowerChar[n[i]]])

\* the position of the last c in n, or 0
LastIndexOf(n, c) ==
    LET at == {i \in 1..Len(n) : n[i] = c}
    IN IF at = {} THEN 0 ELSE CHOOSE i \in at : \A j \in at : j <= i

\* n.rsplit(c).next(): what follows the last c, or all of n
AfterLast(n, c) == SubSeq(n, LastIndexOf(n, c) + 1, Len(n))

\* Option of a name part
Some(v) == [some |-> TRUE, v |-> v]
Absent  == [some |-> FALSE, v |-> NoMarker]

\* the parts of n between separators
RECURSIVE SplitPath(_, _)
SplitPath(n, cur) ==
    IF n = <<>> THEN <<cur>>
    ELSE IF Head(n) = "/" THEN <<cur>> \o SplitPath(Tail(n), <<>>)
    ELSE SplitPath(Tail(n), Append(cur, Head(n)))

\* Path::components without the root and the leading current directory:
\* repeated and trailing separators and the parts "." are dropped
Components(n) ==
    SelectSeq(SplitPath(n, <<>>), LAMBDA part : part # <<>> /\ part # <<".">>)

\* Path::file_name: the last component if it is a normal one
PathFileName(n) ==
    LET parts == Components(n)
    IN IF parts = <<>> \/ parts[Len(parts)] = <<".", ".">> THEN Absent
       ELSE Some(parts[Len(parts)])

\* Path::extension: what follows the last dot of the file name, if the file
\* name has a dot that is not its first character
PathExtension(n) ==
    LET f == PathFileName(n)
        k == LastIndexOf(f.v, ".")
    IN IF ~f.some \/ k <= 1 THEN Absent
       ELSE Some(SubSeq(f.v, k + 1, Len(f.v)))

file_name(h) ==
    IF h.kind = "path"
    THEN (IF PathFileName(h.name).some
          THEN Some(to_lowercase(PathFileName(h.name).v)) ELSE Absent)
    ELSE Some(AfterLast(h.name, "/"))

extension(h) ==
    IF h.kind = "path"
    THEN (IF PathExtension(h.name).some
          THEN Some(to_lowercase(PathExtension(h.name).v)) ELSE Absent)
    ELSE Some(AfterLast(file_name(h).v, "."))

\* BufRead::read_line on an empty String: the bytes up to the first "\n",
\* that byte included, or up to the end; nothing if they are not UTF-8
RECURSIVE UpToNewline(_)
UpToNewline(txt) ==
    IF txt = <<>> THEN <<>>
    ELSE IF Head(txt) = NL THEN <<NL>>
    ELSE <<Head(txt)>> \o UpToNewline(Tail(txt))

read_line(txt) ==
    IF BAD \in Range(UpToNewline(txt)) THEN <<>> ELSE UpToNewline(txt)

\* the bytes the reads of a reader over the file deliver before the end of
\* the file or an error
Delivered(h) ==
    IF h.read_fails THEN SubSeq(h.content, 1, Min(h.good, Len(h.content)))
    ELSE h.content

\* read_first_line: [ok, line]; the result of read_line is dropped, and the
\* line keeps what read_line appended before an error
read_first_line(h) ==
    IF h.open_fails THEN [ok |-> FALSE, line |-> <<>>]
    ELSE [ok |-> TRUE, line |-> read_line(Delivered(h))]

BinSh      == <<"#", "!", "/", "b", "i", "n", "/", "s", "h">>
BinCsh     == <<"#", "!", "/", "b", "i", "n", "/", "c", "s", "h">>
UsrBinPerl == <<"#", "!", "/", "u", "s", "r", "/", "b", "i", "n", "/",
                "p", "e", "r", "l">>
UsrBinEnv  == <<"#", "!", "/", "u", "s", "r", "/", "b", "i", "n", "/",
                "e", "n", "v">>

get_filetype_from_shebang(h) ==
    LET r == read_first_line(h)
        words == Words(r.line)
    IN IF ~r.ok \/ words = <<>> THEN Absent
       ELSE IF words[1] = BinSh THEN Some(<<"s", "h">>)
       ELSE IF words[1] = BinCsh THEN Some(<<"c", "s", "h">>)
       ELSE IF words[1] = UsrBinPerl THEN Some(<<"p", "l">>)
       ELSE IF words[1] = UsrBinEnv /\ Len(words) >= 2
                 /\ EnvExtension(words[2]) # NoMarker
            THEN Some(EnvExtension(words[2]))
       ELSE Absent

\* from_file_access that identifies no language
from_file_access_none(h) == None

\* filename, then extension, then interpreter line
from_file_access(h) ==
    LET fname == file_name(h)
        ext == extension(h)
        filetype == IF ext.some THEN ext ELSE get_filetype_from_shebang(h)
    IN IF fname.some /\ FilenameLanguage(fname.v) # None
       THEN FilenameLanguage(fname.v)
       ELSE IF filetype.some THEN ExtensionLanguage(filetype.v) ELSE None

-----------------------------------------------------------------------------
(* LanguageType::parse *)

\* Option<&[LanguageType]>: [some, list]
NoTypes == [some |-> FALSE, list |-> {}]
Only(ts) == [some |-> TRUE, list |-> ts]

is_supported(ts, lang) == IF ts.some THEN lang \in ts.list ELSE TRUE

\* LanguageType::from_content: the content-sniffing hook
from_content(txt) == IF txt = SniffedText THEN "C" ELSE None

\* io::Result<Option<(LanguageType, Stats)>>
OkNone == [tag |-> "none"]
OkSome(lang, st) == [tag |-> "some", language |-> lang, stats |-> st]
Failed(e) == [tag |-> "err", err |-> e]

\* A reader over a file: [data, pos].  take(n).read_to_end reads at most n
\* bytes from pos on, read_to_end all that is left; both advance pos.
Open(h) == [data |-> h.content, pos |-> 0]
ReadUpTo(r, n) ==
    LET k == Min(Len(r.data) - r.pos, n)
    IN [bytes |-> SubSeq(r.data, r.pos + 1, r.pos + k),
        reader |-> [r EXCEPT !.pos = @ + k]]
ReadToEnd(r) == ReadUpTo(r, Len(r.data))

\* Ok(Some((language, stats))) of a Result<Stats, io::Error>, or its error
WithLanguage(lang, r) == IF r.ok THEN OkSome(lang, r.value) ELSE Failed(r.err)

\* the branch of parse for a language determined from metadata
ParseKnown(h, ts, lang) ==
    IF ~is_supported(ts, lang) THEN OkNone
    ELSE IF h.open_fails THEN Failed("open")
    ELSE IF h.read_fails THEN Failed("read")
    ELSE WithLanguage(lang, parse_from_bytes(lang, h.name, ReadToEnd(Open(h)).bytes))

\* the text the second branch of parse holds: the prefix, and the rest of
\* the same reader after it
PrefixThenRest(first) == first.bytes \o ReadToEnd(first.reader).bytes

\* the second branch of parse once the prefix is read
ParseSniffed(h, first, txt) ==
    IF is_binary(first.bytes) THEN OkNone
    ELSE IF from_content(txt) = None THEN OkNone
    ELSE IF ~decode(txt).ok THEN Failed("decode error")
    ELSE OkSome(from_content(txt),
                parse_from_bytes_checked(from_content(txt), h.name, decode(txt).text))

\* the branch of parse that looks at the content
ParseUnknown(h, ts) ==
    IF h.open_fails THEN Failed("open")
    ELSE IF h.read_fails /\ Len(Delivered(h)) < BinaryPrefix THEN Failed("read")
    ELSE IF h.read_fails
    THEN (IF is_binary(ReadUpTo(Open(h), BinaryPrefix).bytes) THEN OkNone
          ELSE Failed("read"))
    ELSE ParseSniffed(h, ReadUpTo(Open(h), BinaryPrefix),
                      PrefixThenRest(ReadUpTo(Open(h), BinaryPrefix)))

parse(h, ts) ==
    IF from_file_access(h) # None THEN ParseKnown(h, ts, from_file_access(h))
    ELSE ParseUnknown(h, ts)

-----------------------------------------------------------------------------
(* Language and the map of Languages *)

\* Language::new
NewLanguage ==
    [blanks |-> 0, code |-> 0, comments |-> 0, lines |-> 0, stats |-> <<>>]

\* Language::add_stat: the Stats joins the list, the totals wait for total()
add_stat(l, st) == [l EXCEPT !.stats = Append(@, st)]

RECURSIVE SumOver(_, _)
SumOver(sts, field) ==
    IF sts = <<>> THEN 0 ELSE Head(sts)[field] + SumOver(Tail(sts), field)

\* total that adds the sums to what the Language held
total_adding(l) ==
    [l EXCEPT !.blanks = @ + SumOver(l.stats, "blanks"),
              !.code = @ + SumOver(l.stats, "code"),
              !.comments = @ + SumOver(l.stats, "comments"),
              !.lines = @ + SumOver(l.stats, "lines")]

\* Language::total: the totals are computed from the accumulated Stats
total(l) ==
    [l EXCEPT !.blanks = SumOver(l.stats, "blanks"),
              !.code = SumOver(l.stats, "code"),
              !.comments = SumOver(l.stats, "comments"),
              !.lines = SumOver(l.stats, "lines")]

\* the map with key k set to v
MapPut(m, k, v) == [x \in DOMAIN m \cup {k} |-> IF x = k THEN v ELSE m[x]]

EmptyMap == [x \in {} |-> NewLanguage]

\* FoldOne that inserts a new Language over the one that is there
FoldOneInsert(m, lang, st) == MapPut(m, lang, add_stat(NewLanguage, st))

\* one pass of the fold of get_all_file_accesses: create if absent, add
FoldOne(m, lang, st) ==
    LET e == IF lang \in DOMAIN m THEN m[lang] ELSE NewLanguage
    IN MapPut(m, lang, add_stat(e, st))

\* FoldAll that gives up at the first Err
RECURSIVE FoldAllUntilErr(_, _)
FoldAllUntilErr(m, rs) ==
    IF rs = <<>> \/ Head(rs).tag = "err" THEN m
    ELSE IF Head(rs).tag = "some"
         THEN FoldAllUntilErr(FoldOne(m, Head(rs).language, Head(rs).stats), Tail(rs))
         ELSE FoldAllUntilErr(m, Tail(rs))

\* the fold run twice over the results, each run up to the first Err
FoldAllTwice(m, rs) == FoldAllUntilErr(FoldAllUntilErr(m, rs), rs)

\* the fold over what filter_map kept, in the order of the input
RECURSIVE FoldAll(_, _)
FoldAll(m, rs) ==
    IF rs = <<>> THEN m
    ELSE IF Head(rs).tag = "some"
         THEN FoldAll(FoldOne(m, Head(rs).language, Head(rs).stats), Tail(rs))
         ELSE FoldAll(m, Tail(rs))

\* par_iter_mut().for_each(total)
TotalAll(m) == [k \in DOMAIN m |-> total(m[k])]

-----------------------------------------------------------------------------
(* The ingestion as a state machine: one call of get_statistics_from, the   *)
(* classification tasks of get_all_file_accesses in any interleaving.       *)

HelloRs ==
    [kind |-> "path", name |-> <<"h", "e", "l", "l", "o", ".", "r", "s">>,
     content |-> HelloText, open_fails |-> FALSE, read_fails |-> FALSE, good |-> 0]

AC ==
    [kind |-> "path", name |-> <<"a", ".", "c">>,
     content |-> BlockCommentText, open_fails |-> FALSE, read_fails |-> FALSE, good |-> 0]

BC ==
    [kind |-> "path", name |-> <<"b", ".", "c">>,
     content |-> OtherCText, open_fails |-> FALSE, read_fails |-> FALSE, good |-> 0]

\* a binary file with a known extension
BinRs ==
    [kind |-> "path", name |-> <<"b", "i", "n", ".", "r", "s">>,
     content |-> BinaryText, open_fails |-> FALSE, read_fails |-> FALSE, good |-> 0]

\* a binary file with no extension
Blob ==
    [kind |-> "path", name |-> <<"b", "l", "o", "b">>,
     content |-> BinaryText, open_fails |-> FALSE, read_fails |-> FALSE, good |-> 0]

\* no extension, no shebang: identified from its content
Main ==
    [kind |-> "path", name |-> <<"m", "a", "i", "n">>,
     content |-> SniffedText, open_fails |-> FALSE, read_fails |-> FALSE, good |-> 0]

\* no language at all
Readme ==
    [kind |-> "path", name |-> <<"R", "E", "A", "D", "M", "E">>,
     content |-> UnknownText, open_fails |-> FALSE, read_fails |-> FALSE, good |-> 0]

\* removed between enumeration and open
GoneC ==
    [kind |-> "path", name |-> <<"g", "o", "n", "e", ".", "c">>,
     content |-> OtherCText, open_fails |-> TRUE, read_fails |-> FALSE, good |-> 0]

\* opens, and the read fails
TornC ==
    [kind |-> "path", name |-> <<"t", "o", "r", "n", ".", "c">>,
     content |-> OtherCText, open_fails |-> FALSE, read_fails |-> TRUE, good |-> 0]

\* a Python script by its first line, whose reads fail after that line
Script ==
    [kind |-> "path", name |-> <<"s", "c", "r", "i", "p", "t">>,
     content |-> <<"#", "!", "/", "u", "s", "r", "/", "b", "i", "n", "/",
                   "e", "n", "v", SP, "p", "y", "t", "h", "o", "n">>,
     open_fails |-> FALSE, read_fails |-> TRUE, good |-> 21]

\* does not decode
BadC ==
    [kind |-> "path", name |-> <<"b", "a", "d", ".", "c">>,
     content |-> UndecodableText, open_fails |-> FALSE, read_fails |-> FALSE, good |-> 0]

\* a directory: it opens, and reading it fails
DirectoryRs ==
    [kind |-> "path",
     name |-> <<"d", "i", "r", "e", "c", "t", "o", "r", "y", ".", "r", "s">>,
     content |-> <<>>, open_fails |-> FALSE, read_fails |-> TRUE, good |-> 0]

\* a symbolic link to hello.rs
LinkRs ==
    [kind |-> "path", name |-> <<"l", "i", "n", "k", ".", "r", "s">>,
     content |-> HelloText, open_fails |-> FALSE, read_fails |-> FALSE, good |-> 0]

\* a file with no line
EmptyRs ==
    [kind |-> "path", name |-> <<"e", "m", "p", "t", "y", ".", "r", "s">>,
     content |-> <<>>, open_fails |-> FALSE, read_fails |-> FALSE, good |-> 0]

\* the file of an earlier call
OldRs ==
    [kind |-> "path", name |-> <<"o", "l", "d", ".", "r", "s">>,
     content |-> OldText, open_fails |-> FALSE, read_fails |-> FALSE, good |-> 0]

\* the files there are, by the path a handle refers to
Files ==
    [id \in {"hello.rs", "a.c", "b.c", "bin.rs", "blob", "main", "README",
             "gone.c", "torn.c", "script", "bad.c", "old.rs",
             "directory.rs", "link.rs", "empty.rs"} |->
        CASE id = "hello.rs" -> HelloRs
          [] id = "a.c" -> AC
          [] id = "b.c" -> BC
          [] id = "bin.rs" -> BinRs
          [] id = "blob" -> Blob
          [] id = "main" -> Main
          [] id = "README" -> Readme
          [] id = "gone.c" -> GoneC
          [] id = "torn.c" -> TornC
          [] id = "script" -> Script
          [] id = "bad.c" -> BadC
          [] id = "old.rs" -> OldRs
          [] id = "directory.rs" -> DirectoryRs
          [] id = "link.rs" -> LinkRs
          [] id = "empty.rs" -> EmptyRs]

\* the handles a call may be given
Catalogue ==
    DOMAIN Files \ {"old.rs", "directory.rs", "link.rs", "empty.rs"}

\* the sequences of distinct handles of at most n handles
DistinctSeqs(S, n) ==
    {q \in UNION {[1..k -> S] : k \in 0..n} :
        \A i, j \in 1..Len(q) : i # j => q[i] # q[j]}

TypeChoices == {NoTypes, Only({"Rust"}), Only({"C"})}

\* parse is a function of the file and of the allow-list: its value for
\* each pair
ParseOf == [id \in DOMAIN Files |-> [ts \in TypeChoices |-> parse(Files[id], ts)]]

\* the map a call starts from: a new Languages, or one an earlier call of
\* get_statistics_from on old.rs has filled
PriorMaps == {EmptyMap, TotalAll(FoldAll(EmptyMap, <<ParseOf["old.rs"][NoTypes]>>))}

\* what the task of the i-th handle returns
TaskResult(i) == ParseOf[paths[i]][types]

Pending == [tag |-> "pending"]

\* the classifier is not running
ParseIdle ==
    /\ entry = "none"
    /\ language = None
    /\ text = <<>>
    /\ lines = <<>>
    /\ syntax = NewSyntax
    /\ stats = NewStats(<<>>)
    /\ outcome = "none"
    /\ kinds = <<>>
    /\ pc = "idle"

InitIngest ==
    /\ paths \in DistinctSeqs(Catalogue, MaxFiles)
    /\ types \in TypeChoices
    /\ results = [i \in 1..Len(paths) |-> Pending]
    /\ languages \in PriorMaps
    /\ prev = languages
    /\ log = {}
    /\ ipc = "classify"
    /\ ParseIdle
    /\ ChanIdle
    /\ StreamIdle
    /\ IdentIdle
    /\ WalkIdle
    /\ ApiIdle

\* a task of the parallel filter_map ends with r, an Ok
KeepResult(i, r) ==
    /\ r.tag # "err"
    /\ results' = [results EXCEPT ![i] = r]
    /\ UNCHANGED log

\* a task ends with r, an Err: the error is logged, the file dropped
LogError(i, r) ==
    /\ r.tag = "err"
    /\ results' = [results EXCEPT ![i] = r]
    /\ log' = log \cup {[err |-> r.err, name |-> Files[paths[i]].name]}

\* a task of the parallel filter_map whose parse returns Ok
ClassifyOk(i) ==
    /\ ipc = "classify"
    /\ results[i] = Pending
    /\ KeepResult(i, TaskResult(i))
    /\ UNCHANGED <<paths, types, languages, prev, ipc>>
    /\ UNCHANGED outsideIngest

\* a task whose parse returns Err
ClassifyErr(i) ==
    /\ ipc = "classify"
    /\ results[i] = Pending
    /\ LogError(i, TaskResult(i))
    /\ UNCHANGED <<paths, types, languages, prev, ipc>>
    /\ UNCHANGED outsideIngest

\* every task has ended: the results are folded into the map, in order
Fold ==
    /\ ipc = "classify"
    /\ \A i \in 1..Len(paths) : results[i] # Pending
    /\ languages' = FoldAll(languages, results)
    /\ ipc' = "folded"
    /\ UNCHANGED <<paths, types, results, prev, log>>
    /\ UNCHANGED outsideIngest

\* get_statistics_from: every Language computes its totals, and returns
Total ==
    /\ ipc = "folded"
    /\ languages' = TotalAll(languages)
    /\ ipc' = "done"
    /\ UNCHANGED <<paths, types, results, prev, log>>
    /\ UNCHANGED outsideIngest

NextIngest ==
    \/ \E i \in 1..Len(paths) : ClassifyOk(i)
    \/ \E i \in 1..Len(paths) : ClassifyErr(i)
    \/ Fold
    \/ Total

SpecIngest == InitIngest /\ [][NextIngest]_vars

-----------------------------------------------------------------------------
(* Properties of the classifier, under SpecParse *)

Classified == pc = "done" /\ outcome = "ok"

\* C1: the Stats a classification returns has lines = blanks + code +
\* comments, for every language, blank-flagged or not, and every text.
C1_LinesIsSum ==
    Classified => stats.lines = stats.blanks + stats.code + stats.comments

\* a text of a language that is not blank-flagged with a blank line, a line
\* of code and a comment line has been classified
C1_Witness ==
    /\ Classified
    /\ ~is_blank(language)
    /\ stats.blanks > 0 /\ stats.code > 0 /\ stats.comments > 0

\* C2: a.c, the three lines "int x = 1; /* start", "middle" and
\* "end */ int y = 2;", is classified as lines=3, code=2, comments=1: the
\* line that opens the block comment after code is code, the line inside
\* the comment is a comment, the line that closes it and goes on is code.
C2_BlockCommentAcrossLines ==
    (Classified /\ language = "C" /\ text = BlockCommentText) =>
        /\ stats.lines = 3 /\ stats.code = 2 /\ stats.comments = 1
        /\ stats.blanks = 0
        /\ kinds = <<"code", "comment", "code">>

C2_Witness == Classified /\ language = "C" /\ text = BlockCommentText

\* C4: in D the line "/+ outer /+ inner +/ still outer +/" is one comment
\* line and leaves the stack empty, the inner close having left the outer
\* comment open; the next line "code;" is code: lines=2, code=1, comments=1.
C4_NestedComments ==
    (language = "D" /\ text = NestedText) =>
        /\ (pc = "loop" /\ Len(kinds) = 1) =>
              /\ kinds = <<"comment">>
              /\ syntax.stack = <<>>
              /\ ScanWindows("D", NewSyntax, FALSE,
                             SubSeq(NestedText, 1, 20), 1).syntax.stack
                    = << <<"+", "/">> >>
        /\ Classified =>
              /\ stats.lines = 2 /\ stats.code = 1 /\ stats.comments = 1
              /\ kinds = <<"comment", "code">>

C4_Witness == Classified /\ language = "D" /\ text = NestedText

\* C5: for a blank-flagged language every physical line is counted as
\* code, the empty and the whitespace-only lines too: lines = code = the
\* number of lines, blanks = comments = 0, and the syntax counter is never
\* run.
C5_BlankLanguageCountsLines ==
    (Classified /\ is_blank(language)) =>
        /\ stats.lines = Len(Lines(Checked))
        /\ stats.code = Len(Lines(Checked))
        /\ stats.blanks = 0 /\ stats.comments = 0
        /\ syntax = NewSyntax /\ kinds = <<>>

\* a text of a blank-flagged language with an empty line, a line of spaces
\* and a line that is neither has been counted
C5_Witness ==
    /\ Classified /\ is_blank(language)
    /\ \E i, j, k \in 1..Len(Lines(Checked)) :
          /\ Lines(Checked)[i] = <<>>
          /\ Lines(Checked)[j] = <<SP>>
          /\ ~IsBlankLine(Lines(Checked)[k])

\* C6 as claimed: a plain-text file with five non-empty and two empty lines
\* is lines=7, code=5, blanks=2, comments=0.
C6_Claimed ==
    (Classified /\ language = "Text" /\ text = PlainText) =>
        stats.lines = 7 /\ stats.code = 5 /\ stats.blanks = 2 /\ stats.comments = 0

\* C6, amended: a plain-text file with five non-empty and two empty lines
\* is lines=7, code=7, blanks=0, comments=0: the empty lines count as code.
C6_PlainTextAllCode ==
    (Classified /\ language = "Text" /\ text = PlainText) =>
        stats.lines = 7 /\ stats.code = 7 /\ stats.blanks = 0 /\ stats.comments = 0

C6_Witness == Classified /\ language = "Text" /\ text = PlainText

-----------------------------------------------------------------------------
(* Properties of parse and of the ingestion, under SpecIngest *)

Tasks == 1..Len(paths)

\* the Stats of a Language of a map, none if the key is absent
StatsOf(m, lt) == IF lt \in DOMAIN m THEN m[lt].stats ELSE <<>>

\* the names of the Stats a map holds
StatNames(m) ==
    UNION {{StatsOf(m, lt)[j].name : j \in 1..Len(StatsOf(m, lt))} : lt \in DOMAIN m}

\* a total of a Language of a map, 0 if the key is absent
TotalOf(m, lt, field) == IF lt \in DOMAIN m THEN m[lt][field] ELSE 0

HelloStats(l, c) ==
    [blanks |-> 0, code |-> c, comments |-> 0, lines |-> l,
     name |-> Files["hello.rs"].name]

\* C3 as claimed: hello.rs is identified as Rust and classified as lines=3,
\* code=3, comments=0, blanks=0.
C3_Claimed ==
    \A i \in Tasks :
        (paths[i] = "hello.rs" /\ results[i] # Pending) =>
            results[i] = IF is_supported(types, "Rust")
                         THEN OkSome("Rust", HelloStats(3, 3)) ELSE OkNone

\* C3, amended: hello.rs, which has two lines, is identified as Rust and
\* classified as lines=2, code=2, comments=0, blanks=0: the // inside the
\* string starts no comment, and the line with code before // greet is code.
C3_HelloWorld ==
    \A i \in Tasks :
        (paths[i] = "hello.rs" /\ results[i] # Pending) =>
            results[i] = IF is_supported(types, "Rust")
                         THEN OkSome("Rust", HelloStats(2, 2)) ELSE OkNone

C3_Witness ==
    \E i \in Tasks :
        /\ paths[i] = "hello.rs"
        /\ is_supported(types, "Rust")
        /\ results[i].tag = "some"

\* what a file adds to a total of language lt under allow-list ts
Contribution(id, ts, lt, field) ==
    IF ParseOf[id][ts].tag = "some" /\ ParseOf[id][ts].language = lt
    THEN ParseOf[id][ts].stats[field] ELSE 0

\* the sum of the contributions of a set of files, in no order
RECURSIVE SumOfSet(_, _, _, _)
SumOfSet(S, ts, lt, field) ==
    IF S = {} THEN 0
    ELSE Contribution(CHOOSE x \in S : TRUE, ts, lt, field)
            + SumOfSet(S \ {CHOOSE x \in S : TRUE}, ts, lt, field)

\* C7: the per-language totals after get_statistics_from depend on the set
\* of handles only, not on the order they are given in nor on the
\* interleaving of the tasks: each total is what the map held before plus
\* the sum over the set.
C7_TotalsOrderIndependent ==
    ipc = "done" =>
        \A lt \in LanguageTypes :
            \A field \in {"blanks", "code", "comments", "lines"} :
                TotalOf(languages, lt, field)
                    = TotalOf(prev, lt, field)
                        + SumOfSet(Range(paths), types, lt, field)

\* two files of one language, b.c given before a.c, have been ingested
\* into a map that held a file already
C7_Witness ==
    /\ ipc = "done"
    /\ paths = <<"b.c", "a.c">>
    /\ types = NoTypes
    /\ prev # EmptyMap

\* C8: a failing handle never aborts the ingestion: it contributes no
\* Stats, the Stats of every other handle is folded, and the call goes on
\* to its end.
C8_FailureIsLocal ==
    /\ ipc # "done" => ENABLED NextIngest
    /\ ipc = "done" =>
          \A i \in Tasks :
              /\ results[i].tag = "err" =>
                    Files[paths[i]].name \notin StatNames(languages)
              /\ results[i].tag = "some" =>
                    /\ results[i].language \in DOMAIN languages
                    /\ results[i].stats \in Range(languages[results[i].language].stats)

\* a handle that failed was given before one that was classified
C8_Witness ==
    /\ ipc = "done"
    /\ Len(paths) = 2
    /\ results[1].tag = "err"
    /\ results[2].tag = "some"

\* a NUL among the first BinaryPrefix bytes of the file
BinaryFile(id) == is_binary(Files[id].content)

Logged(id) == \E e \in log : e.name = Files[id].name

\* C9 as claimed: a binary file is skipped silently, and leaves the
\* aggregate unchanged, whether its language was identified from its name
\* or not.
C9_Claimed ==
    \A i \in Tasks :
        (BinaryFile(paths[i]) /\ results[i] # Pending) =>
            /\ results[i].tag \in {"none", "err"}
            /\ ~Logged(paths[i])
            /\ Files[paths[i]].name \notin StatNames(languages)

\* C9, amended: a binary file is never counted.  parse_from_bytes returns
\* the error "binary file" and no Stats, so when the language was
\* identified from the name (and is allowed) parse fails with that error,
\* which is logged; when the language was not identified, parse returns
\* Ok(None) and nothing is logged.  Either way the file adds nothing to
\* the aggregate.
C9_BinaryNeverCounted ==
    \A i \in Tasks :
        (BinaryFile(paths[i]) /\ results[i] # Pending) =>
            /\ Files[paths[i]].name \notin StatNames(languages)
            /\ (\A j \in Tasks : BinaryFile(paths[j])) /\ ipc = "done"
                  => languages = prev
            /\ IF from_file_access(Files[paths[i]]) = None
               THEN results[i] = OkNone /\ ~Logged(paths[i])
               ELSE IF is_supported(types, from_file_access(Files[paths[i]]))
               THEN /\ results[i] = Failed("binary file")
                    /\ [err |-> "binary file", name |-> Files[paths[i]].name] \in log
               ELSE results[i] = OkNone /\ ~Logged(paths[i])

\* a binary file with a known extension and one without have been skipped
C9_Witness ==
    /\ ipc = "done"
    /\ Range(paths) = {"bin.rs", "blob"}
    /\ types = NoTypes
    /\ prev # EmptyMap

\* C10: with an allow-list, parse returns a language of the allow-list
\* only, on both branches, so every key that ingestion adds to the
\* aggregate is in the allow-list.
C10_AllowListRespected ==
    types.some =>
        /\ \A i \in Tasks :
              results[i].tag = "some" => results[i].language \in types.list
        /\ DOMAIN languages \subseteq DOMAIN prev \cup types.list

-----------------------------------------------------------------------------
(* Identification: LanguageType::from_file_access, step by step *)

\* most directories in front of a file name
MaxDirs == 1

\* FileAccess::name
name(h) == h.name

\* with_name that keeps the name of the handle it wraps
with_name_keeps(h, n) ==
    [kind |-> "with_name", name |-> h.name, content |-> h.content,
     open_fails |-> h.open_fails, read_fails |-> h.read_fails,
     good |-> h.good, origin |-> h.name]

\* FileAccess::with_name: the WithName wrapper answers name() with n and
\* hands the reads to the handle it wraps; file_name() and extension() are
\* the defaults of the trait
with_name(h, n) ==
    [kind |-> "with_name", name |-> n, content |-> h.content,
     open_fails |-> h.open_fails, read_fails |-> h.read_fails,
     good |-> h.good, origin |-> h.name]

\* a &Path
PathHandle(n, txt, fails) ==
    [kind |-> "path", name |-> n, content |-> txt,
     open_fails |-> fails, read_fails |-> FALSE, good |-> 0, origin |-> n]

\* a &Path whose reads deliver k bytes and then fail
Interrupted(n, txt, k) ==
    [PathHandle(n, txt, FALSE) EXCEPT !.read_fails = TRUE, !.good = k]

SrcDir == <<"s", "r", "c", "/">>

RECURSIVE Dirs(_)
Dirs(k) == IF k = 0 THEN <<>> ELSE SrcDir \o Dirs(k - 1)

Stems == {<<"m", "a", "i", "n">>,
          <<"M", "A", "I", "N">>,
          <<"m", "a", "k", "e", "f", "i", "l", "e">>,
          <<"M", "a", "k", "e", "f", "i", "l", "e">>,
          <<"s", "c", "r", "i", "p", "t">>}

Suffixes == {<<>>, <<".", "r", "s">>, <<".", "R", "S">>, <<".", "p", "y">>}

\* maKefile with KELVIN SIGN for its k
KelvinMakefile == <<"m", "a", KELVIN, "e", "f", "i", "l", "e">>

\* a name and an extension in Greek capitals: OMEGA.RS, and x. ALPHA SIGMA
OmegaRs == <<"U+03A9", ".", "R", "S">>
AlphaSigma == <<"x", ".", "U+0391", SIGMA>>

\* names with a trailing separator, with a trailing current directory, and
\* with a letter outside ASCII
OddNames ==
    {KelvinMakefile, OmegaRs, AlphaSigma,
     SrcDir \o <<"m", "a", "i", "n", ".", "r", "s", "/">>,
     SrcDir \o <<"M", "a", "k", "e", "f", "i", "l", "e", "/", ".">>,
     <<".">>}

\* the names a handle may have
IdentNames ==
    {Dirs(k) \o st \o su : k \in 0..MaxDirs, st \in Stems, su \in Suffixes}
        \cup OddNames

ShebangText == <<"#", "!", "/", "u", "s", "r", "/", "b", "i", "n", "/", "e", "n", "v", SP, "p", "y", "t", "h", "o", "n", "3", NL, "p", "r", "i", "n", "t", "(", "1", ")", NL>>

ShText == <<"#", "!", "/", "b", "i", "n", "/", "s", "h", NL, "x", NL>>

\* #!/bin/sh with a form feed after the interpreter
FormFeedShText == <<"#", "!", "/", "b", "i", "n", "/", "s", "h", FF, "x", NL>>

\* #!/usr/bin/env python3 on a first line that is not UTF-8
BadFirstLineText == <<"#", "!", "/", "u", "s", "r", "/", "b", "i", "n", "/", "e", "n", "v", SP, "p", "y", "t", "h", "o", "n", "3", SP, BAD, NL, "x", NL>>

\* the contents a file may have
IdentContents ==
    {ShebangText, ShText, OldText, FormFeedShText, BadFirstLineText}

\* #!/bin/sh -e
ShDashEText == <<"#", "!", "/", "b", "i", "n", "/", "s", "h", SP, "-", "e", NL, "x", NL>>

\* #!/usr/bin/env python, and no end of line
EnvPythonText == <<"#", "!", "/", "u", "s", "r", "/", "b", "i", "n", "/", "e", "n", "v", SP, "p", "y", "t", "h", "o", "n">>

\* the reads that fail: the content, and the bytes delivered before the
\* error; none, ten of the first line, or all of a file of one line
Interruptions == {<<ShDashEText, 0>>, <<ShDashEText, 10>>, <<EnvPythonText, 21>>}

InitIdentify ==
    /\ handle \in {PathHandle(n, txt, fails) :
                      n \in IdentNames, txt \in IdentContents, fails \in BOOLEAN}
                \cup {Interrupted(n, i[1], i[2]) :
                        n \in IdentNames, i \in Interruptions}
    /\ consulted = {}
    /\ ftype = Absent
    /\ ident = None
    /\ idpc = "start"
    /\ ParseIdle
    /\ ChanIdle
    /\ StreamIdle
    /\ IngestIdle
    /\ WalkIdle
    /\ ApiIdle

\* the caller wraps the path in a WithName before it identifies it
Rename(n) ==
    /\ idpc = "start"
    /\ handle.kind = "path"
    /\ handle' = with_name(handle, n)
    /\ UNCHANGED <<consulted, ftype, ident, idpc>>
    /\ UNCHANGED outsideIdent

\* the file name is an entry of some language's filenames: return it
FilenameHit ==
    /\ idpc = "start"
    /\ file_name(handle).some
    /\ FilenameLanguage(file_name(handle).v) # None
    /\ consulted' = consulted \cup {"file_name"}
    /\ ident' = FilenameLanguage(file_name(handle).v)
    /\ idpc' = "done"
    /\ UNCHANGED <<handle, ftype>>
    /\ UNCHANGED outsideIdent

\* no file name, or none that is a filenames entry
FilenameMiss ==
    /\ idpc = "start"
    /\ ~(file_name(handle).some /\ FilenameLanguage(file_name(handle).v) # None)
    /\ consulted' = consulted \cup {"file_name"}
    /\ idpc' = "extension"
    /\ UNCHANGED <<handle, ftype, ident>>
    /\ UNCHANGED outsideIdent

\* entry.extension() is Some: it is the file type
TakeExtension ==
    /\ idpc = "extension"
    /\ extension(handle).some
    /\ consulted' = consulted \cup {"extension"}
    /\ ftype' = extension(handle)
    /\ idpc' = "match"
    /\ UNCHANGED <<handle, ident>>
    /\ UNCHANGED outsideIdent

\* entry.extension() is None: or_else reads the first line
ReadShebang ==
    /\ idpc = "extension"
    /\ ~extension(handle).some
    /\ consulted' = consulted \cup {"extension", "first_line"}
    /\ ftype' = get_filetype_from_shebang(handle)
    /\ idpc' = "match"
    /\ UNCHANGED <<handle, ident>>
    /\ UNCHANGED outsideIdent

\* the match on the file type
MatchExtension ==
    /\ idpc = "match"
    /\ ident' = IF ftype.some THEN ExtensionLanguage(ftype.v) ELSE None
    /\ idpc' = "done"
    /\ UNCHANGED <<handle, consulted, ftype>>
    /\ UNCHANGED outsideIdent

NextIdentify ==
    \/ \E n \in IdentNames : Rename(n)
    \/ FilenameHit
    \/ FilenameMiss
    \/ TakeExtension
    \/ ReadShebang
    \/ MatchExtension

SpecIdentify == InitIdentify /\ [][NextIdentify]_vars

\* the steps return what from_file_access computes
IdentAgrees == idpc = "done" => ident = from_file_access(handle)

-----------------------------------------------------------------------------
(* Properties of the identification, under SpecIdentify *)

\* the last component of the name, as written
BaseName(h) == AfterLast(h.name, "/")

\* the last component of the name has no dot
NoExtension(h) == LastIndexOf(BaseName(h), ".") = 0

\* the rule of C11: a file name that is a filenames entry decides, and
\* neither the extension nor the first line is asked for
FilenameDecides ==
    (/\ idpc = "done"
     /\ file_name(handle).some
     /\ FilenameLanguage(file_name(handle).v) # None)
        => /\ ident = FilenameLanguage(file_name(handle).v)
           /\ consulted = {"file_name"}

\* C11 as claimed: a file name that is a filenames entry decides the
\* language, whatever the extension, and a file named Makefile.rs is
\* identified as Make, not as Rust.
C11_Claimed ==
    /\ FilenameDecides
    /\ (idpc = "done" /\ handle.kind = "path"
            /\ BaseName(handle) = <<"M", "a", "k", "e", "f", "i", "l", "e", ".", "r", "s">>)
          => ident = "Make"

\* C11, amended: a file name that is a filenames entry decides the language
\* and neither the extension nor the first line is consulted: a file whose
\* file_name() is makefile is Make.  The match is on the whole file name,
\* so Makefile.rs (file name makefile.rs) is no entry and is identified by
\* its extension, as Rust.
C11_FilenameOverrides ==
    /\ FilenameDecides
    /\ (idpc = "done" /\ file_name(handle) = Some(<<"m", "a", "k", "e", "f", "i", "l", "e">>))
          => ident = "Make" /\ consulted = {"file_name"}
    /\ (idpc = "done" /\ handle.kind = "path"
            /\ BaseName(handle) = <<"M", "a", "k", "e", "f", "i", "l", "e", ".", "r", "s">>)
          => ident = "Rust" /\ "extension" \in consulted

\* a path named Makefile whose first line names the Python interpreter is
\* identified as Make, and the first line was not read
C11_Witness ==
    /\ idpc = "done"
    /\ handle.kind = "path"
    /\ BaseName(handle) = <<"M", "a", "k", "e", "f", "i", "l", "e">>
    /\ handle.content = ShebangText
    /\ ~handle.open_fails
    /\ ident = "Make"

\* C12: identification is case-insensitive for every handle: a handle is
\* identified as the handle with the lowercased name is.
C12_CaseInsensitive ==
    idpc = "done" =>
        ident = from_file_access([handle EXCEPT !.name = to_lowercase(@)])

\* C13: a handle named script, with no extension, whose first line is
\* #!/usr/bin/env python3 is identified as Python from that line, and its
\* two lines are classified as one comment and one line of code.
C13_ShebangFallback ==
    (/\ idpc = "done"
     /\ BaseName(handle) = <<"s", "c", "r", "i", "p", "t">>
     /\ NoExtension(handle)
     /\ handle.content = ShebangText
     /\ ~handle.open_fails)
        => /\ ident = "Python"
           /\ parse(handle, NoTypes)
                = OkSome("Python", [blanks |-> 0, code |-> 1, comments |-> 1,
                                    lines |-> 2, name |-> handle.name])

\* C18: a renamed handle answers name() with the new name and reads what
\* the wrapped handle reads, and its identification is that of any other
\* handle of the same content renamed to the same name, whatever the
\* wrapped handle was called.
C18_RenameHidesOrigin ==
    /\ [](idpc = "done" /\ handle.kind = "with_name" =>
            \A o \in IdentNames :
                ident = from_file_access(
                            with_name([PathHandle(o, handle.content,
                                                  handle.open_fails)
                                          EXCEPT !.read_fails = handle.read_fails,
                                                 !.good = handle.good],
                                      handle.name)))
    /\ [][\A n \in IdentNames :
            Rename(n) => /\ name(handle') = n
                         /\ Open(handle') = Open(handle)
                         /\ read_first_line(handle') = read_first_line(handle)
                         /\ handle'.open_fails = handle.open_fails]_vars

\* a file called makefile, which alone is Make, was renamed to main.rs and
\* is identified as Rust
C18_Witness ==
    /\ idpc = "done"
    /\ handle.kind = "with_name"
    /\ handle.origin = <<"m", "a", "k", "e", "f", "i", "l", "e">>
    /\ handle.name = <<"m", "a", "i", "n", ".", "r", "s">>
    /\ ident = "Rust"

-----------------------------------------------------------------------------
(* The walk of get_all_files, followed by get_all_file_accesses *)

\* most entries the walker yields
MaxEntries == 3

\* what the walker can yield: Ok(entry) with the file type of the entry
\* (none for standard input), or Err
WalkEntries ==
    {[id |-> "hello.rs", type |-> "file"],
     [id |-> "a.c", type |-> "file"],
     [id |-> "gone.c", type |-> "file"],
     [id |-> "directory.rs", type |-> "dir"],
     [id |-> "link.rs", type |-> "symlink"],
     [id |-> "-", type |-> "none"],
     [id |-> "denied", type |-> "error"],
     [id |-> "io", type |-> "error"],
     [id |-> "depth-io", type |-> "error"],
     [id |-> "path-denied", type |-> "error"]}

\* the path of the entry the walker could not read
DeniedName == <<"d", "e", "n", "i", "e", "d">>

\* the Err the callback is given: WithDepth { WithPath { path, .. } } for
\* "denied", WithPath alone for "path-denied", WithDepth around an Io for
\* "depth-io", an Io for "io"
WithDepth(e) == e.id \in {"denied", "depth-io"}
WithPath(e) == e.id \in {"denied", "path-denied"}

\* the Err arm of the callback: the line names the path only for a
\* WithPath inside a WithDepth
ErrorLine(e) ==
    [err |-> "walk",
     name |-> IF WithDepth(e) /\ WithPath(e) THEN DeniedName ELSE NoMarker]

\* the paths a call is given: none, or the root of the tree
Root == <<".">>
RootChoices == {<<>>, <<Root>>}

\* the ignored_directories a call is given: a pattern the override builder
\* takes ("ok"), one its add rejects ("bad_glob"), one it takes and that
\* makes build fail ("bad_set")
IgnoredChoices == {<<>>, <<"ok">>, <<"bad_glob">>, <<"bad_set">>}

\* rs_error!(overrides.add(..)): a line for each pattern add rejects
ExcludeLines(ig) ==
    {[err |-> "exclude", name |-> NoMarker] :
        i \in {j \in 1..Len(ig) : ig[j] = "bad_glob"}}

\* overrides.build() is Err
BuildFails(ig) == \E i \in 1..Len(ig) : ig[i] = "bad_set"

\* the trees a walker over the roots can yield
TreeChoices(rs) ==
    IF rs = <<>> THEN {{}}
    ELSE {t \in SUBSET WalkEntries : Cardinality(t) <= MaxEntries}

\* is_file with directories taken for files
is_file_or_dir(ft) == ft \in {"file", "dir"}

\* FileType::is_file
is_file(ft) == ft = "file"

InitWalk ==
    /\ roots \in RootChoices
    /\ ignored \in IgnoredChoices
    /\ tree \in TreeChoices(roots)
    /\ unvisited = {}
    /\ paths = <<>>
    /\ types \in TypeChoices
    /\ results = <<>>
    /\ languages \in PriorMaps
    /\ prev = languages
    /\ log = {}
    /\ ipc = "start"
    /\ ParseIdle
    /\ ChanIdle
    /\ StreamIdle
    /\ IdentIdle
    /\ ApiIdle

\* paths is empty: paths.next().unwrap() panics
NoPath ==
    /\ ipc = "start"
    /\ roots = <<>>
    /\ ipc' = "panic"
    /\ UNCHANGED <<roots, ignored, tree, unvisited, paths, types, results,
                   languages, prev, log>>
    /\ UNCHANGED outsideWalk

\* the excludes are added, a line is logged for each one add rejects, and
\* build fails: the expect panics
InvalidExcludes ==
    /\ ipc = "start"
    /\ roots # <<>>
    /\ BuildFails(ignored)
    /\ log' = log \cup ExcludeLines(ignored)
    /\ ipc' = "panic"
    /\ UNCHANGED <<roots, ignored, tree, unvisited, paths, types, results,
                   languages, prev>>
    /\ UNCHANGED outsideWalk

\* the walker is built over the paths, with the excludes add took
BuildWalker ==
    /\ ipc = "start"
    /\ roots # <<>>
    /\ ~BuildFails(ignored)
    /\ log' = log \cup ExcludeLines(ignored)
    /\ unvisited' = tree
    /\ ipc' = "walk"
    /\ UNCHANGED <<roots, ignored, tree, paths, types, results, languages,
                   prev>>
    /\ UNCHANGED outsideWalk

\* the callback is given Err: the error is logged, the walk goes on
VisitError(e) ==
    /\ ipc = "walk"
    /\ e \in unvisited
    /\ e.type = "error"
    /\ unvisited' = unvisited \ {e}
    /\ log' = log \cup {ErrorLine(e)}
    /\ UNCHANGED <<roots, ignored, tree, paths, types, results, languages, prev, ipc>>
    /\ UNCHANGED outsideWalk

\* the callback is given a regular file: it is sent down the channel
VisitFile(e) ==
    /\ ipc = "walk"
    /\ e \in unvisited
    /\ e.type \notin {"error", "none"}
    /\ is_file(e.type)
    /\ unvisited' = unvisited \ {e}
    /\ paths' = Append(paths, e.id)
    /\ results' = Append(results, Pending)
    /\ UNCHANGED <<roots, ignored, tree, types, languages, prev, log, ipc>>
    /\ UNCHANGED outsideWalk

\* the callback is given an entry with no file type, or one that is no
\* regular file: nothing is sent
VisitOther(e) ==
    /\ ipc = "walk"
    /\ e \in unvisited
    /\ e.type # "error"
    /\ e.type = "none" \/ ~is_file(e.type)
    /\ unvisited' = unvisited \ {e}
    /\ UNCHANGED <<roots, ignored, tree, paths, types, results, languages, prev, log, ipc>>
    /\ UNCHANGED outsideWalk

\* the walk has ended and the channel is drained: the files collected are
\* handed to get_all_file_accesses
Collect ==
    /\ ipc = "walk"
    /\ unvisited = {}
    /\ ipc' = "classify"
    /\ UNCHANGED <<roots, ignored, tree, unvisited, paths, types, results, languages, prev, log>>
    /\ UNCHANGED outsideWalk

NextWalk ==
    \/ NoPath
    \/ InvalidExcludes
    \/ BuildWalker
    \/ \E e \in WalkEntries : VisitError(e)
    \/ \E e \in WalkEntries : VisitFile(e)
    \/ \E e \in WalkEntries : VisitOther(e)
    \/ Collect
    \/ \E i \in 1..Len(paths) : ClassifyOk(i)
    \/ \E i \in 1..Len(paths) : ClassifyErr(i)
    \/ Fold
    \/ Total

SpecWalk == InitWalk /\ [][NextWalk]_vars

\* the entries of the tree that are no regular files
NotFiles == {e \in tree : e.type # "file"}

\* C14: only the entries that are regular files are sent to the collector:
\* a directory named like a source file is never handed to parse, logs no
\* read error, adds no Stats, and a tree whose only .rs entries are no
\* regular files adds no Rust to the aggregate.
C14_OnlyRegularFiles ==
    /\ \A e \in NotFiles :
          /\ e.id \notin Range(paths)
          /\ e.id \in DOMAIN Files =>
                /\ Files[e.id].name \notin StatNames(languages) \ StatNames(prev)
                /\ \A l \in log : l.name # Files[e.id].name
    /\ Range(paths) \subseteq {e.id : e \in tree \ NotFiles}
    /\ (\A e \in tree \ NotFiles : e.id \in {"a.c", "gone.c"})
          => DOMAIN languages \ DOMAIN prev \subseteq {"C"}

\* a tree with the directory directory.rs and the file a.c has been
\* ingested into a new Languages: there is a C entry and no Rust entry
C14_Witness ==
    /\ ipc = "done"
    /\ [id |-> "directory.rs", type |-> "dir"] \in tree
    /\ [id |-> "a.c", type |-> "file"] \in tree
    /\ prev = EmptyMap
    /\ types = NoTypes
    /\ DOMAIN languages = {"C"}

-----------------------------------------------------------------------------
(* The calls on one Languages: get_statistics_from, +=, remove_empty *)

\* most calls made on the Languages
MaxOps == 3

\* Language += Language: the counts are added, the Stats lists joined
LanguageAdd(a, b) ==
    [blanks |-> a.blanks + b.blanks, code |-> a.code + b.code,
     comments |-> a.comments + b.comments, lines |-> a.lines + b.lines,
     stats |-> a.stats \o b.stats]

\* the merge that also takes the keys the Languages does not have
add_assign_insert(m, rhs) ==
    [k \in DOMAIN m \cup DOMAIN rhs |->
        IF k \in DOMAIN m /\ k \in DOMAIN rhs THEN LanguageAdd(m[k], rhs[k])
        ELSE IF k \in DOMAIN m THEN m[k] ELSE rhs[k]]

\* Languages += BTreeMap: each Language of rhs is added to the Language of
\* its key if the Languages has the key
add_assign(m, rhs) ==
    [k \in DOMAIN m |->
        IF k \in DOMAIN rhs THEN LanguageAdd(m[k], rhs[k]) ELSE m[k]]

\* Language::is_empty: no file has contributed
is_empty(l) == l.stats = <<>>

\* Ord for LanguageType: the variants in the order of their declaration
LanguageOrder ==
    <<"Bash", "C", "CoffeeScript", "D", "FortranLegacy", "FortranModern",
      "Make", "Python", "Rust", "Text">>

\* the iteration of a BTreeMap<LanguageType, Language>: its pairs, by key
Pairs(m) ==
    LET keys == SelectSeq(LanguageOrder, LAMBDA k : k \in DOMAIN m)
    IN [i \in 1..Len(keys) |-> <<keys[i], m[keys[i]]>>]

\* remove_empty that removes nothing
remove_empty_none(m) == Pairs(m)

\* Languages::remove_empty: the pairs whose Language is not empty, in the
\* order of the map
remove_empty(m) ==
    SelectSeq(Pairs(m), LAMBDA pair : ~is_empty(pair[2]))

\* what the tasks of get_all_file_accesses return for a sequence of files
ResultsOf(files, ts) == [i \in 1..Len(files) |-> ParseOf[files[i]][ts]]

\* the error! lines of get_all_file_accesses for a sequence of files
ErrorsOf(files, ts) ==
    {[err |-> ParseOf[files[i]][ts].err, name |-> Files[files[i]].name] :
        i \in {j \in 1..Len(files) : ParseOf[files[j]][ts].tag = "err"}}

\* Languages::get_statistics_from: fold what the files give, then total
get_statistics_from(m, files, ts) ==
    TotalAll(FoldAll(m, ResultsOf(files, ts)))

\* the file sets handed to get_statistics_from
Batches ==
    {<<>>, <<"hello.rs">>, <<"a.c">>, <<"empty.rs">>, <<"bad.c">>,
     <<"a.c", "hello.rs">>}

\* the maps handed to +=
ExternalMaps ==
    {get_statistics_from(EmptyMap, files, NoTypes) :
        files \in {<<>>, <<"old.rs">>, <<"b.c">>, <<"old.rs", "b.c">>}}

\* the Languages a caller has at hand: those that iterating another
\* Languages by value gives
OwnedLanguages == UNION {{m[k] : k \in DOMAIN m} : m \in ExternalMaps}

\* the keys a caller inserts and removes
ApiKeys == {"C", "D", "Rust"}

\* the Stats a caller has at hand: those of b.c
CallerStats == {ParseOf["b.c"][NoTypes].stats}

InitLanguages ==
    /\ languages = EmptyMap
    /\ prev = EmptyMap
    /\ log = {}
    /\ op = [call |-> "new"]
    /\ view = <<>>
    /\ nops = 0
    /\ paths = <<>>
    /\ types = None
    /\ results = <<>>
    /\ ipc = "idle"
    /\ ParseIdle
    /\ ChanIdle
    /\ StreamIdle
    /\ IdentIdle
    /\ WalkIdle

\* languages.get_statistics_from(files, None)
CallGetStatisticsFrom(files) ==
    /\ nops < MaxOps
    /\ prev' = languages
    /\ languages' = get_statistics_from(languages, files, NoTypes)
    /\ log' = log \cup ErrorsOf(files, NoTypes)
    /\ op' = [call |-> "get_statistics_from", files |-> files]
    /\ nops' = nops + 1
    /\ UNCHANGED view
    /\ UNCHANGED outsideApi

\* languages += rhs
CallAddAssign(rhs) ==
    /\ nops < MaxOps
    /\ prev' = languages
    /\ languages' = add_assign(languages, rhs)
    /\ op' = [call |-> "add_assign", rhs |-> rhs]
    /\ nops' = nops + 1
    /\ UNCHANGED <<view, log>>
    /\ UNCHANGED outsideApi

\* languages.entry(k).or_insert_with(Language::new), through DerefMut
CallInsertNew(k) ==
    /\ nops < MaxOps
    /\ prev' = languages
    /\ languages' = IF k \in DOMAIN languages THEN languages
                    ELSE MapPut(languages, k, NewLanguage)
    /\ op' = [call |-> "insert", key |-> k]
    /\ nops' = nops + 1
    /\ UNCHANGED <<view, log>>
    /\ UNCHANGED outsideApi

\* languages.clear(), through DerefMut
CallClear ==
    /\ nops < MaxOps
    /\ prev' = languages
    /\ languages' = EmptyMap
    /\ op' = [call |-> "clear"]
    /\ nops' = nops + 1
    /\ UNCHANGED <<view, log>>
    /\ UNCHANGED outsideApi

\* languages.remove(&k), through DerefMut
CallRemove(k) ==
    /\ nops < MaxOps
    /\ prev' = languages
    /\ languages' = [x \in DOMAIN languages \ {k} |-> languages[x]]
    /\ op' = [call |-> "remove", key |-> k]
    /\ nops' = nops + 1
    /\ UNCHANGED <<view, log>>
    /\ UNCHANGED outsideApi

\* languages.insert(k, l), through DerefMut: l takes the place of what the
\* key had
CallInsert(k, l) ==
    /\ nops < MaxOps
    /\ prev' = languages
    /\ languages' = MapPut(languages, k, l)
    /\ op' = [call |-> "insert_value", key |-> k]
    /\ nops' = nops + 1
    /\ UNCHANGED <<view, log>>
    /\ UNCHANGED outsideApi

\* for (_, l) in &mut languages { l.add_stat(st) }, for the Language of k:
\* the mutable iterator (and get_mut, values_mut, iter_mut through
\* DerefMut) hands out each Language of the map, and add_stat is what the
\* fold calls on such a reference; the totals wait for total()
CallAddStat(k, st) ==
    /\ nops < MaxOps
    /\ k \in DOMAIN languages
    /\ prev' = languages
    /\ languages' = [languages EXCEPT ![k] = add_stat(@, st)]
    /\ op' = [call |-> "add_stat", key |-> k]
    /\ nops' = nops + 1
    /\ UNCHANGED <<view, log>>
    /\ UNCHANGED outsideApi

\* languages.remove_empty()
CallRemoveEmpty ==
    /\ nops < MaxOps
    /\ prev' = languages
    /\ view' = remove_empty(languages)
    /\ op' = [call |-> "remove_empty"]
    /\ nops' = nops + 1
    /\ UNCHANGED <<languages, log>>
    /\ UNCHANGED outsideApi

NextLanguages ==
    \/ \E files \in Batches : CallGetStatisticsFrom(files)
    \/ \E rhs \in ExternalMaps : CallAddAssign(rhs)
    \/ \E k \in ApiKeys : CallInsertNew(k)
    \/ CallClear
    \/ \E k \in ApiKeys : CallRemove(k)
    \/ \E k \in ApiKeys, l \in OwnedLanguages : CallInsert(k, l)
    \/ \E k \in ApiKeys, st \in CallerStats : CallAddStat(k, st)
    \/ CallRemoveEmpty

SpecLanguages == InitLanguages /\ [][NextLanguages]_vars

-----------------------------------------------------------------------------
(* Properties of the calls on a Languages, under SpecLanguages *)

Counts == {"blanks", "code", "comments", "lines"}

\* C15: languages += map adds the Language of each key of map that the
\* Languages has and ignores the keys it does not have: the key set is the
\* same after the merge, a key that is not in map keeps its value, and a
\* key that is in both gets the sum of the counts and both lists of Stats.
C15_MergeIgnoresNewKeys ==
    op.call = "add_assign" =>
        /\ DOMAIN languages = DOMAIN prev
        /\ \A k \in DOMAIN prev :
              IF k \in DOMAIN op.rhs
              THEN /\ \A f \in Counts :
                        languages[k][f] = prev[k][f] + op.rhs[k][f]
                   /\ languages[k].stats = prev[k].stats \o op.rhs[k].stats
              ELSE languages[k] = prev[k]

\* a map with Rust and C was merged into a Languages that has C only: the
\* Rust of the map is ignored, the C is added
C15_Witness ==
    /\ op.call = "add_assign"
    /\ DOMAIN op.rhs = {"C", "Rust"}
    /\ DOMAIN prev = {"C"}
    /\ prev["C"].code > 0
    /\ languages["C"].code > prev["C"].code

\* C16: get_statistics_from with no file leaves the Languages as it was:
\* the same keys, and for every key the same blanks, code, comments and
\* lines and the same list of Stats.
C16_EmptySetIsNoOp ==
    (op.call = "get_statistics_from" /\ op.files = <<>>) =>
        /\ DOMAIN languages = DOMAIN prev
        /\ \A k \in DOMAIN prev :
              /\ \A f \in Counts : languages[k][f] = prev[k][f]
              /\ languages[k].stats = prev[k].stats

\* the place of a LanguageType in the order of the keys
Rank(k) == CHOOSE i \in 1..Len(LanguageOrder) : LanguageOrder[i] = k

\* C17: remove_empty returns exactly the pairs of the languages that have
\* at least one contributing file, each with the Language the map holds,
\* in the order of the keys, and leaves the Languages as it was: no
\* language with a non-zero count is dropped and none without a file is
\* kept.
C17_RemoveEmpty ==
    op.call = "remove_empty" =>
        /\ languages = prev
        /\ {view[i][1] : i \in 1..Len(view)}
                = {k \in DOMAIN languages : languages[k].stats # <<>>}
        /\ \A i \in 1..Len(view) : view[i][2] = languages[view[i][1]]
        /\ \A i, j \in 1..Len(view) :
                i < j => Rank(view[i][1]) < Rank(view[j][1])
        /\ \A k \in DOMAIN languages :
              (\E f \in Counts : languages[k][f] # 0)
                    => \E i \in 1..Len(view) : view[i][1] = k

\* remove_empty was called on a Languages with a C and a Rust that have
\* files and a D that has none: the view has the C, then the Rust
C17_Witness ==
    /\ op.call = "remove_empty"
    /\ DOMAIN languages = {"C", "D", "Rust"}
    /\ languages["D"].stats = <<>>
    /\ languages["C"].code > 0
    /\ Len(view) = 2
    /\ view[1][1] = "C"
    /\ view[2][1] = "Rust"

-----------------------------------------------------------------------------
(* The window loop of parse_lines, position by position *)

\* the loop is at a non-blank line that parse_basic does not settle
Scanning ==
    /\ pc = "loop"
    /\ lines # <<>>
    /\ ~IsBlankLine(Head(lines))
    /\ ~parse_basic(language, syntax, Trimmed(language, Head(lines)), stats).ok

\* the positions the scan of the next line stops at, with the counter there
ScanVisits ==
    IF Scanning
    THEN Visits(language, syntax, Trimmed(language, Head(lines)), 1)
    ELSE {}

\* the window starts with the marker that closes the open quote
ClosesQuote(v) ==
    v.syntax.quote # NoMarker /\ StartsWith(v.window, v.syntax.quote)

\* the window starts with the marker that closes the innermost block comment
ClosesComment(v) ==
    /\ ~ClosesQuote(v)
    /\ v.syntax.stack # <<>>
    /\ StartsWith(v.window, v.syntax.stack[Len(v.syntax.stack)])

\* the window also starts with a marker that opens a quote or a block comment
MatchesOpener(lang, window) ==
    \/ FirstOpen(quotes(lang), window) # 0
    \/ FirstOpen(multi_line_comments(lang) \o nested_comments(lang),
                 window) # 0

\* C19: at every scan position where the window starts with the marker that
\* closes the open quote or the innermost open block comment, that construct
\* is closed, ended_with_comments is set and nothing is opened, also when
\* the same bytes match an opening marker.
C19_CloseBeforeOpen ==
    \A v \in ScanVisits :
        /\ ClosesQuote(v) =>
              /\ WindowStep(language, v.syntax, v.window).ended
              /\ WindowStep(language, v.syntax, v.window).syntax
                    = [v.syntax EXCEPT !.quote = NoMarker]
        /\ ClosesComment(v) =>
              /\ WindowStep(language, v.syntax, v.window).ended
              /\ WindowStep(language, v.syntax, v.window).syntax
                    = [v.syntax EXCEPT
                         !.stack = SubSeq(@, 1, Len(@) - 1)]

\* one line closes a block comment with the bytes that open one, and closes
\* a quote with the bytes that open one
C19_Witness ==
    /\ \E v \in ScanVisits :
          ClosesQuote(v) /\ MatchesOpener(language, v.window)
    /\ \E v \in ScanVisits :
          ClosesComment(v) /\ MatchesOpener(language, v.window)

\* the scan of the next line reaches the end of the line on the marker that
\* closes the innermost block comment
EndsWithClose ==
    \E v \in ScanVisits :
        ClosesComment(v) /\ v.window = v.syntax.stack[Len(v.syntax.stack)]

\* the verdict of the loop body on the next line
Verdict == KindOf(stats, ParseLine(language, syntax, stats, Head(lines)).stats)

\* C20: a non-blank line that starts inside a block comment is counted as a
\* comment when the comment is still open at the end of the line or the
\* line ends with the marker that closes it, and as code when something
\* follows the last close and the line does not begin with a comment marker.
C20_LineInsideBlockComment ==
    (Scanning /\ syntax.stack # <<>>) =>
        IF \/ ScanWindows(language, syntax, FALSE,
                          Trimmed(language, Head(lines)), 1).syntax.stack
                 # <<>>
           \/ EndsWithClose
        THEN Verdict = "comment"
        ELSE (\A c \in start_of_comments(language) :
                 ~StartsWith(Trimmed(language, Head(lines)), c))
             => Verdict = "code"

\* a quote is open in the counter
QuoteOpen(s) == s.quote # NoMarker

\* C21: an open quote and a non-empty block-comment stack never coexist, at
\* the start of a line or at any scan position; a scan position opens a
\* quote only when no quote is open and the stack is empty, and pushes a
\* block comment only when no quote is open.
C21_QuoteXorComment ==
    /\ ~(QuoteOpen(syntax) /\ syntax.stack # <<>>)
    /\ \A v \in ScanVisits :
          /\ ~(QuoteOpen(v.syntax) /\ v.syntax.stack # <<>>)
          /\ ~(QuoteOpen(WindowStep(language, v.syntax, v.window).syntax)
                /\ WindowStep(language, v.syntax, v.window).syntax.stack
                      # <<>>)
          /\ (~QuoteOpen(v.syntax)
                /\ QuoteOpen(WindowStep(language, v.syntax, v.window).syntax))
              => v.syntax.stack = <<>>
          /\ Len(WindowStep(language, v.syntax, v.window).syntax.stack)
                > Len(v.syntax.stack)
              => ~QuoteOpen(v.syntax)

\* one line meets a quote opener inside an open block comment and a
\* block-comment opener inside an open quote
C21_Witness ==
    /\ \E v \in ScanVisits :
          /\ v.syntax.stack # <<>>
          /\ FirstOpen(quotes(language), v.window) # 0
          /\ WindowStep(language, v.syntax, v.window).syntax = v.syntax
    /\ \E v \in ScanVisits :
          /\ QuoteOpen(v.syntax)
          /\ FirstOpen(multi_line_comments(language)
                          \o nested_comments(language), v.window) # 0
          /\ WindowStep(language, v.syntax, v.window).syntax = v.syntax

\* C22: a non-blank line that starts inside an open string is never counted
\* as a comment, also when the string is closed on the line, and comment
\* markers met while the string is open push no block comment and do not
\* end the scan.
C22_LineInsideString ==
    (Scanning /\ QuoteOpen(syntax)) =>
        /\ Verdict # "comment"
        /\ \A v \in ScanVisits :
              QuoteOpen(v.syntax) =>
                /\ WindowStep(language, v.syntax, v.window).syntax.stack
                      = v.syntax.stack
                /\ ~WindowStep(language, v.syntax, v.window).stop

\* the loop is at a non-blank line that parse_basic settles
FastPath ==
    /\ pc = "loop"
    /\ lines # <<>>
    /\ ~IsBlankLine(Head(lines))
    /\ parse_basic(language, syntax, Trimmed(language, Head(lines)), stats).ok

\* the verdict the window loop and the test after it give on a line
ScanVerdict(lang, s, line) ==
    IF IsCommentLine(lang, ScanWindows(lang, s, FALSE, line, 1).syntax,
                     ScanWindows(lang, s, FALSE, line, 1).ended,
                     s.stack # <<>>, line)
    THEN "comment" ELSE "code"

\* C23: parse_basic settles a line only when no quote is open, the stack is
\* empty and the line holds no quote opener, block-comment opener or
\* block-comment closer; it then counts a comment when the trimmed line
\* (for a Fortran variant, the line as it is written) starts with a
\* line-comment marker and code otherwise, which is what the
\* window loop with the test after it gives, and the counter is unchanged.
C23_FastPathIsShortcut ==
    FastPath =>
        /\ ~QuoteOpen(syntax)
        /\ syntax.stack = <<>>
        /\ \A m \in important_syntax(language) :
              ~Contains(Trimmed(language, Head(lines)), m)
        /\ Verdict =
              IF \E c \in Range(line_comments(language)) :
                    StartsWith(Trimmed(language, Head(lines)), c)
              THEN "comment" ELSE "code"
        /\ Verdict = ScanVerdict(language, syntax,
                                 Trimmed(language, Head(lines)))
        /\ ScanWindows(language, syntax, FALSE,
                       Trimmed(language, Head(lines)), 1).syntax = syntax
        /\ ParseLine(language, syntax, stats, Head(lines)).syntax = syntax

\* the fast path settles a line that starts with a line-comment marker and
\* goes on after it
C23_Witness ==
    /\ FastPath
    /\ Verdict = "comment"
    /\ \E c \in Range(line_comments(language)) :
          /\ StartsWith(Trimmed(language, Head(lines)), c)
          /\ Len(Trimmed(language, Head(lines))) > Len(c)

\* C24: the loop body on a line of whitespace only adds one to blanks,
\* leaves code and comments alone and leaves quote and stack unchanged, also
\* when a block comment or a string is open.
C24_BlankLineInsideConstruct ==
    [][(pc = "loop" /\ lines # <<>> /\ IsBlankLine(Head(lines))
          /\ lines' = Tail(lines))
       => /\ syntax' = syntax
          /\ stats'.blanks = stats.blanks + 1
          /\ stats'.code = stats.code
          /\ stats'.comments = stats.comments
          /\ kinds' = Append(kinds, "blank")]_vars

\* a blank line has been counted with a block comment open, and the comment
\* is still open on the line after it
C24_Witness ==
    /\ pc = "loop"
    /\ lines # <<>>
    /\ kinds # <<>>
    /\ kinds[Len(kinds)] = "blank"
    /\ stats.blanks = 1
    /\ syntax.stack # <<>>

\* the block-comment pairs of a language, the regular ones first
AllPairs(lang) == multi_line_comments(lang) \o nested_comments(lang)

\* the scan position is at a block-comment opener that is looked at: no
\* quote is open and nothing is closed there
AtOpener(lang, v) ==
    /\ ~QuoteOpen(v.syntax)
    /\ ~ClosesComment(v)
    /\ FirstOpen(AllPairs(lang), v.window) # 0

\* the pair whose opener the window starts with
PairAt(lang, v) == AllPairs(lang)[FirstOpen(AllPairs(lang), v.window)]

\* the opener at the scan position is one that nests
Nests(lang, v) ==
    allows_nested(lang) \/ PairAt(lang, v) \in Range(nested_comments(lang))

\* the close markers that can be on the stack once only
OnceOnly(lang) ==
    IF allows_nested(lang) THEN {}
    ELSE Range(Closes(multi_line_comments(lang)))
            \ Range(Closes(nested_comments(lang)))

\* C25: where allows_nested is false, an opener of a regular pair whose
\* close marker is already on the stack pushes nothing, the stack never
\* holds that marker twice and closing it leaves none of it on the stack;
\* an opener from nested_comments, or any opener where allows_nested is
\* true, pushes one level, and every close pops one level.
C25_NestingRule ==
    /\ \A i, j \in DOMAIN syntax.stack :
          (i # j /\ syntax.stack[i] = syntax.stack[j])
              => syntax.stack[i] \notin OnceOnly(language)
    /\ \A v \in ScanVisits :
          /\ (AtOpener(language, v) /\ ~Nests(language, v)
                /\ PairAt(language, v)[2] \in Range(v.syntax.stack))
              => WindowStep(language, v.syntax, v.window).syntax.stack
                    = v.syntax.stack
          /\ (AtOpener(language, v)
                /\ (Nests(language, v)
                     \/ PairAt(language, v)[2] \notin Range(v.syntax.stack)))
              => WindowStep(language, v.syntax, v.window).syntax.stack
                    = Append(v.syntax.stack, PairAt(language, v)[2])
          /\ ClosesComment(v)
              => /\ Len(WindowStep(language, v.syntax,
                                   v.window).syntax.stack)
                      = Len(v.syntax.stack) - 1
                 /\ v.syntax.stack[Len(v.syntax.stack)]
                        \in OnceOnly(language)
                     => v.syntax.stack[Len(v.syntax.stack)] \notin
                          Range(WindowStep(language, v.syntax,
                                           v.window).syntax.stack)

\* one line meets a regular opener whose close marker is on the stack, and
\* a nested_comments opener whose close marker is on the stack
C25_Witness ==
    /\ ~allows_nested(language)
    /\ \E v \in ScanVisits :
          /\ AtOpener(language, v) /\ ~Nests(language, v)
          /\ PairAt(language, v)[2] \in Range(v.syntax.stack)
    /\ \E v \in ScanVisits :
          /\ AtOpener(language, v) /\ Nests(language, v)
          /\ PairAt(language, v)[2] \in Range(v.syntax.stack)

-----------------------------------------------------------------------------
(* The channel of get_all_files: walker threads send, the caller collects *)

\* most walker threads
MaxThreads == 2

\* mpsc::channel() with a buffer of one entry
channel_has_room_for_one(c) == Len(c) < 1

\* mpsc::channel(): the buffer is unbounded, send never waits
channel_has_room(c) == TRUE

\* the call has made the channel; the threads are those build_parallel
\* will start
InitChannel ==
    /\ roots \in RootChoices
    /\ ignored \in IgnoredChoices
    /\ tree \in TreeChoices(roots)
    /\ unvisited = {}
    /\ \E n \in 1..MaxThreads : workers = [t \in 1..n |-> "new"]
    /\ senders = {0}
    /\ chan = <<>>
    /\ sent = <<>>
    /\ collected = <<>>
    /\ cpc = "start"
    /\ paths = <<>>
    /\ types = None
    /\ results = <<>>
    /\ languages = <<>>
    /\ prev = <<>>
    /\ log = {}
    /\ ipc = "idle"
    /\ ParseIdle
    /\ IdentIdle
    /\ ApiIdle
    /\ StreamIdle

\* paths is empty: paths.next().unwrap() panics, and the unwinding drops
\* the Sender and the Receiver
UnwrapPanics ==
    /\ cpc = "start"
    /\ roots = <<>>
    /\ senders' = {}
    /\ cpc' = "panic"
    /\ UNCHANGED <<roots, ignored, tree, unvisited, workers, chan, sent,
                   collected, log>>
    /\ UNCHANGED outsideChan

\* build of the overrides fails: the expect panics
ExpectPanics ==
    /\ cpc = "start"
    /\ roots # <<>>
    /\ BuildFails(ignored)
    /\ log' = log \cup ExcludeLines(ignored)
    /\ senders' = {}
    /\ cpc' = "panic"
    /\ UNCHANGED <<roots, ignored, tree, unvisited, workers, chan, sent,
                   collected>>
    /\ UNCHANGED outsideChan

\* the walker is built and run starts the threads
RunStarts ==
    /\ cpc = "start"
    /\ roots # <<>>
    /\ ~BuildFails(ignored)
    /\ log' = log \cup ExcludeLines(ignored)
    /\ unvisited' = tree
    /\ cpc' = "walking"
    /\ UNCHANGED <<roots, ignored, tree, workers, senders, chan, sent,
                   collected>>
    /\ UNCHANGED outsideChan

\* a walker thread calls the closure given to run: tx.clone()
MakeVisitor(t) ==
    /\ cpc = "walking"
    /\ t \in DOMAIN workers
    /\ workers[t] = "new"
    /\ workers' = [workers EXCEPT ![t] = "walking"]
    /\ senders' = senders \cup {t}
    /\ UNCHANGED <<roots, ignored, tree, unvisited, chan, sent, collected, cpc, log>>
    /\ UNCHANGED outsideChan

\* the callback of thread t is given Err: the error is logged
CallbackError(t, e) ==
    /\ t \in DOMAIN workers
    /\ workers[t] = "walking"
    /\ e \in unvisited
    /\ e.type = "error"
    /\ unvisited' = unvisited \ {e}
    /\ log' = log \cup {ErrorLine(e)}
    /\ UNCHANGED <<roots, ignored, tree, workers, senders, chan, sent, collected, cpc>>
    /\ UNCHANGED outsideChan

\* the callback of thread t is given a regular file: tx.send(entry)
CallbackSend(t, e) ==
    /\ t \in DOMAIN workers
    /\ workers[t] = "walking"
    /\ e \in unvisited
    /\ e.type \notin {"error", "none"}
    /\ is_file(e.type)
    /\ channel_has_room(chan)
    /\ unvisited' = unvisited \ {e}
    /\ chan' = Append(chan, e.id)
    /\ sent' = Append(sent, e.id)
    /\ UNCHANGED <<roots, ignored, tree, workers, senders, collected, cpc, log>>
    /\ UNCHANGED outsideChan

\* the callback of thread t is given an entry that is no regular file
CallbackSkip(t, e) ==
    /\ t \in DOMAIN workers
    /\ workers[t] = "walking"
    /\ e \in unvisited
    /\ e.type # "error"
    /\ e.type = "none" \/ ~is_file(e.type)
    /\ unvisited' = unvisited \ {e}
    /\ UNCHANGED <<roots, ignored, tree, workers, senders, chan, sent, collected, cpc, log>>
    /\ UNCHANGED outsideChan

\* nothing is left to walk: thread t ends and its visitor, with the Sender
\* it holds, is dropped
WorkerExit(t) ==
    /\ t \in DOMAIN workers
    /\ workers[t] = "walking"
    /\ unvisited = {}
    /\ workers' = [workers EXCEPT ![t] = "exited"]
    /\ senders' = senders \ {t}
    /\ UNCHANGED <<roots, ignored, tree, unvisited, chan, sent, collected, cpc, log>>
    /\ UNCHANGED outsideChan

\* every thread has ended: run returns and drops the closure it was given,
\* with the Sender the closure owns
RunReturns ==
    /\ cpc = "walking"
    /\ \A t \in DOMAIN workers : workers[t] = "exited"
    /\ senders' = senders \ {0}
    /\ cpc' = "draining"
    /\ UNCHANGED <<roots, ignored, tree, unvisited, workers, chan, sent, collected, log>>
    /\ UNCHANGED outsideChan

\* rx.into_iter() yields the next entry
Receive ==
    /\ cpc = "draining"
    /\ chan # <<>>
    /\ collected' = Append(collected, Head(chan))
    /\ chan' = Tail(chan)
    /\ UNCHANGED <<roots, ignored, tree, unvisited, workers, senders, sent, cpc, log>>
    /\ UNCHANGED outsideChan

\* the channel is empty and no Sender is left: the iterator ends and
\* collect returns the Vec
EndOfChannel ==
    /\ cpc = "draining"
    /\ chan = <<>>
    /\ senders = {}
    /\ cpc' = "done"
    /\ UNCHANGED <<roots, ignored, tree, unvisited, workers, senders, chan, sent, collected,
                   log>>
    /\ UNCHANGED outsideChan

NextChannel ==
    \/ UnwrapPanics
    \/ ExpectPanics
    \/ RunStarts
    \/ \E t \in 1..MaxThreads : MakeVisitor(t)
    \/ \E t \in 1..MaxThreads, e \in WalkEntries : CallbackError(t, e)
    \/ \E t \in 1..MaxThreads, e \in WalkEntries : CallbackSend(t, e)
    \/ \E t \in 1..MaxThreads, e \in WalkEntries : CallbackSkip(t, e)
    \/ \E t \in 1..MaxThreads : WorkerExit(t)
    \/ RunReturns
    \/ Receive
    \/ EndOfChannel

\* every thread that can take a step and the caller are scheduled
SpecChannel ==
    InitChannel /\ [][NextChannel]_vars /\ WF_vars(NextChannel)

\* the regular files of the tree
RegularFiles == {e.id : e \in {x \in tree : is_file(x.type)}}

\* what was sent is what was received followed by what is still in the
\* channel, no entry is sent twice, nothing is collected before the walk
\* has ended, and at the end every regular file of the tree is collected
\* once
NothingLost ==
    /\ collected \o chan = sent
    /\ \A i, j \in 1..Len(sent) : sent[i] = sent[j] => i = j
    /\ cpc \in {"start", "walking", "panic"} => collected = <<>>
    /\ cpc = "done" => /\ collected = sent
                        /\ Range(collected) = RegularFiles

\* C26 as claimed: nothing is lost and get_all_files always comes to the
\* end of the drain.
C26_Claimed ==
    /\ []NothingLost
    /\ <>(cpc = "done")

\* C26, amended: nothing is lost, and a call that is given at least one
\* path and excludes that build always comes to the end of the drain, for
\* any number of files and threads; a call with no path, or with excludes
\* that do not build, panics before the walk and collects nothing.
C26_PathIngestionCompletes ==
    /\ [](/\ NothingLost
          /\ cpc = "panic" <=> (unvisited = {} /\ senders = {} /\ sent = <<>>
                                    /\ (roots = <<>> \/ BuildFails(ignored)))
          /\ cpc = "done" => (roots # <<>> /\ ~BuildFails(ignored)))
    /\ <>(cpc = IF roots # <<>> /\ ~BuildFails(ignored) THEN "done"
                 ELSE "panic")

\* two threads have walked a tree with three regular files, and all three
\* were collected
C26_Witness ==
    /\ cpc = "done"
    /\ Len(collected) = 3
    /\ Len(workers) = 2

-----------------------------------------------------------------------------
(* The tasks and the fold of get_all_file_accesses, under SpecIngest *)

\* the tasks that returned a Stats for a language
KeptFor(lt) ==
    {i \in Tasks : results[i].tag = "some" /\ results[i].language = lt}

\* C27: the map changes only in steps taken after every classification task
\* has ended, and those steps change no task result; what a task returns is
\* a function of its handle and the allow-list alone, the same whatever the
\* map holds and whatever the other tasks do; the fold adds the Stats of
\* each task that returned one exactly once.
C27_FoldAfterTasks ==
    /\ [][languages' # languages =>
             /\ \A i \in Tasks : results[i] # Pending
             /\ results' = results]_vars
    /\ [](/\ (\E i \in Tasks : results[i] = Pending) => languages = prev
          /\ \A i \in Tasks :
                results[i] # Pending
                    => results[i] = parse(Files[paths[i]], types)
          /\ ipc \in {"folded", "done"} =>
                \A lt \in LanguageTypes :
                    Len(StatsOf(languages, lt))
                        = Len(StatsOf(prev, lt)) + Cardinality(KeptFor(lt)))

\* two tasks returned Stats of one language and the fold has run on a map
\* that held a file of another language
C27_Witness ==
    /\ ipc = "folded"
    /\ Len(paths) = 2
    /\ Cardinality(KeptFor("C")) = 2
    /\ prev # EmptyMap

-----------------------------------------------------------------------------
(* One Languages that is only ever ingested into *)

NextReingest == \E batch \in Batches : CallGetStatisticsFrom(batch)

SpecReingest == InitLanguages /\ [][NextReingest]_vars

\* the counts of a Language
CountFields == {"blanks", "code", "comments", "lines"}

\* C28: after any sequence of ingestion calls every count of every Language
\* is the sum of that count over the Stats the Language holds, every key of
\* the map holds at least one Stats, and a call raises each count by what
\* its own files contribute and no more.
C28_TotalsAreSums ==
    /\ \A k \in DOMAIN languages :
          /\ languages[k].stats # <<>>
          /\ \A f \in CountFields :
                languages[k][f] = SumOver(languages[k].stats, f)
    /\ op.call = "get_statistics_from" =>
          \A lt \in LanguageTypes :
              \A f \in CountFields :
                  TotalOf(languages, lt, f)
                      = TotalOf(prev, lt, f)
                          + SumOfSet(Range(op.files), NoTypes, lt, f)

\* a second call has added a file to a language the first call had filled
C28_Witness ==
    /\ nops >= 2
    /\ op.call = "get_statistics_from"
    /\ "C" \in DOMAIN prev
    /\ prev["C"].code > 0
    /\ Len(languages["C"].stats) > Len(prev["C"].stats)

-----------------------------------------------------------------------------
(* The two reads of the second branch of LanguageType::parse, read by read *)

\* the byte at offset i of a generated file
ByteAt(i) == <<"a", "b", "c", "d", "e", "f", "g">>[(i % 7) + 1]

\* a file of n bytes, with a NUL at offset nul if nul is not 0
Content(n, nul) == [i \in 1..n |-> IF i = nul THEN NUL ELSE ByteAt(i)]

\* the lengths of the generated files: around the prefix and beyond it
StreamLens ==
    {0, 1, BinaryPrefix - 1, BinaryPrefix, BinaryPrefix + 1,
     2 * BinaryPrefix + 1}

\* where the generated files have a NUL: nowhere, in the last byte of the
\* prefix, in the first byte after it
NulOffsets == {0, BinaryPrefix, BinaryPrefix + 1}

StreamContents ==
    UNION {{Content(n, nul) : nul \in {o \in NulOffsets : o <= n}} :
              n \in StreamLens}
        \cup {SniffedText, UnknownText}

\* how many bytes one read of the reader can return
ChunkSizes == {3000, 5000, 8192}

\* how many bytes a read of at most n bytes returns
ReadLen(r, n) == Min(Len(r.data) - r.pos, n)

\* the second read on a reader that was opened again
rest_reader_reopened(r) == [r EXCEPT !.pos = 0]

\* the reader the second read_to_end is called on: the one the prefix was
\* taken from, where the prefix left it
rest_reader(r) == r

\* the end of the branch: from_content on all that was read
Sniff(nm, txt) ==
    IF from_content(txt) = None THEN OkNone
    ELSE IF ~decode(txt).ok THEN Failed("decode error")
    ELSE OkSome(from_content(txt),
                parse_from_bytes_checked(from_content(txt), nm,
                                         decode(txt).text))

InitStream ==
    /\ reader \in {[data |-> d, pos |-> 0] : d \in StreamContents}
    /\ limit = 0
    /\ buf = <<>>
    /\ sres = [tag |-> "running"]
    /\ spc = "open"
    /\ ParseIdle
    /\ ChanIdle
    /\ IngestIdle
    /\ IdentIdle
    /\ WalkIdle
    /\ ApiIdle

\* file_access.open() returns the reader; take(8000) is put on it
OpenReader ==
    /\ spc = "open"
    /\ limit' = BinaryPrefix
    /\ spc' = "take"
    /\ UNCHANGED <<reader, buf, sres>>
    /\ UNCHANGED outsideStream

\* file_access.open() fails
OpenFails ==
    /\ spc = "open"
    /\ sres' = Failed("open")
    /\ spc' = "done"
    /\ UNCHANGED <<reader, limit, buf>>
    /\ UNCHANGED outsideStream

\* one read of take(8000).read_to_end: at most k bytes, at most what the
\* Take still lets through
TakeChunk(k) ==
    /\ spc = "take"
    /\ ReadLen(reader, Min(k, limit)) > 0
    /\ buf' = buf \o ReadUpTo(reader, Min(k, limit)).bytes
    /\ reader' = ReadUpTo(reader, Min(k, limit)).reader
    /\ limit' = limit - ReadLen(reader, Min(k, limit))
    /\ UNCHANGED <<sres, spc>>
    /\ UNCHANGED outsideStream

\* the first read_to_end has ended and the prefix is binary: Ok(None)
PrefixIsBinary ==
    /\ spc = "take"
    /\ limit = 0 \/ reader.pos = Len(reader.data)
    /\ is_binary(buf)
    /\ sres' = OkNone
    /\ spc' = "done"
    /\ UNCHANGED <<reader, limit, buf>>
    /\ UNCHANGED outsideStream

\* the first read_to_end has ended and the prefix is not binary
PrefixIsText ==
    /\ spc = "take"
    /\ limit = 0 \/ reader.pos = Len(reader.data)
    /\ ~is_binary(buf)
    /\ reader' = rest_reader(reader)
    /\ spc' = "rest"
    /\ UNCHANGED <<limit, buf, sres>>
    /\ UNCHANGED outsideStream

\* one read of reader.read_to_end: at most k bytes
RestChunk(k) ==
    /\ spc = "rest"
    /\ ReadLen(reader, k) > 0
    /\ buf' = buf \o ReadUpTo(reader, k).bytes
    /\ reader' = ReadUpTo(reader, k).reader
    /\ UNCHANGED <<limit, sres, spc>>
    /\ UNCHANGED outsideStream

\* a read of either read_to_end fails
ReadFails ==
    /\ spc \in {"take", "rest"}
    /\ sres' = Failed("read")
    /\ spc' = "done"
    /\ UNCHANGED <<reader, limit, buf>>
    /\ UNCHANGED outsideStream

\* the second read_to_end has ended: from_content, decode, classification
RestEnds ==
    /\ spc = "rest"
    /\ reader.pos = Len(reader.data)
    /\ sres' = Sniff(InputName, buf)
    /\ spc' = "done"
    /\ UNCHANGED <<reader, limit, buf>>
    /\ UNCHANGED outsideStream

NextStream ==
    \/ OpenReader
    \/ OpenFails
    \/ \E k \in ChunkSizes : TakeChunk(k)
    \/ PrefixIsBinary
    \/ PrefixIsText
    \/ \E k \in ChunkSizes : RestChunk(k)
    \/ ReadFails
    \/ RestEnds

SpecStream == InitStream /\ [][NextStream]_vars

\* the branch read by read returns what ParseUnknown returns
StreamAgrees ==
    (spc = "done" /\ sres.tag # "err") =>
        sres = ParseUnknown([name |-> InputName, content |-> reader.data,
                             open_fails |-> FALSE, read_fails |-> FALSE, good |-> 0],
                            NoTypes)

\* C29: what the two reads have put in the buffer is always the content of
\* the file up to where the reader is, each byte once and in order; the
\* first read stops at the prefix, and when the branch ends without an error
\* on a file whose prefix is not binary, the buffer handed to from_content
\* is the whole content.
C29_PrefixThenRestIsContent ==
    /\ buf = SubSeq(reader.data, 1, reader.pos)
    /\ spc = "take" => Len(buf) + limit = BinaryPrefix
    /\ spc = "rest" =>
          Len(buf) >= Min(BinaryPrefix, Len(reader.data))
    /\ (spc = "done" /\ sres.tag # "err" /\ ~is_binary(buf)) =>
          buf = reader.data

\* a file longer than the prefix, with a NUL right after the prefix, was
\* read in more than two reads and handed to from_content whole
C29_Witness ==
    /\ spc = "done"
    /\ sres = OkNone
    /\ Len(reader.data) = 2 * BinaryPrefix + 1
    /\ reader.data[BinaryPrefix + 1] = NUL
    /\ buf = reader.data

=============================================================================
